---- MODULE Spec2Model ----
(***************************************************************************)
(* Persona discovery and ranking pipeline of the Curio tutor:              *)
(*   src/app.py          find_relevant_personas, fallback_persona_selection*)
(*   src/ai_agent.py     search_expert_database, check_region_match,       *)
(*                       process_tool_call, run_agentic_persona_search     *)
(*   src/simple_agent.py run_simple_persona_search, fallback_selection     *)
(* Python strings are TLA+ strings; "k in s" is Contains(s, k) and         *)
(* s.lower() is Lower(s), both computed character by character.  Python    *)
(* dicts are sequences of records, in insertion order.                     *)
(***************************************************************************)
EXTENDS Integers, Sequences, FiniteSets, TLC

\* ------------------------------------------------------------------------
\* Strings
\* ------------------------------------------------------------------------

\* str.lower() on one ASCII character
LowerChar(c) ==
  CASE c = "A" -> "a" [] c = "B" -> "b" [] c = "C" -> "c" [] c = "D" -> "d"
    [] c = "E" -> "e" [] c = "F" -> "f" [] c = "G" -> "g" [] c = "H" -> "h"
    [] c = "I" -> "i" [] c = "J" -> "j" [] c = "K" -> "k" [] c = "L" -> "l"
    [] c = "M" -> "m" [] c = "N" -> "n" [] c = "O" -> "o" [] c = "P" -> "p"
    [] c = "Q" -> "q" [] c = "R" -> "r" [] c = "S" -> "s" [] c = "T" -> "t"
    [] c = "U" -> "u" [] c = "V" -> "v" [] c = "W" -> "w" [] c = "X" -> "x"
    [] c = "Y" -> "y" [] c = "Z" -> "z" [] OTHER -> c

RECURSIVE Lower(_)
\* str.lower()
Lower(s) ==
  IF Len(s) = 0 THEN ""
  ELSE LowerChar(SubSeq(s, 1, 1)) \o Lower(SubSeq(s, 2, Len(s)))

\* Python's "k in s" on strings: k occurs as a contiguous substring of s
Contains(s, k) ==
  \E i \in 1..(Len(s) - Len(k) + 1) : SubSeq(s, i, i + Len(k) - 1) = k

\* "x in xs" on a list
InList(x, xs) == \E i \in 1..Len(xs) : xs[i] = x

Min(a, b) == IF a <= b THEN a ELSE b

\* xs[:n]
Take(xs, n) == SubSeq(xs, 1, Min(n, Len(xs)))

\* ------------------------------------------------------------------------
\* src/app.py: tables of the Fallback Ranker
\* ------------------------------------------------------------------------

FAMOUS_PERSONAS ==
  <<"Elon Musk",
    "Jeff Bezos",
    "Steve Jobs",
    "Bill Gates",
    "Warren Buffett",
    "Albert Einstein",
    "Isaac Newton",
    "Marie Curie",
    "Stephen Hawking",
    "Nikola Tesla",
    "Naval Ravikant",
    "Sam Altman",
    "Mark Zuckerberg",
    "Sundar Pichai",
    "Chanakya",
    "A.P.J. Abdul Kalam",
    "Swami Vivekananda",
    "Satya Nadella",
    "Richard Feynman",
    "Carl Sagan",
    "Neil deGrasse Tyson">>

APP_REGION_PERSONAS ==
  <<[region |-> "Global", personas |-> <<"Albert Einstein", "Isaac Newton", "Leonardo da Vinci", "Marie Curie", "Nikola Tesla">>],
    [region |-> "India", personas |-> <<"A.P.J. Abdul Kalam", "Ratan Tata", "Sundar Pichai", "Satya Nadella", "Chanakya", "Swami Vivekananda", "Srinivasa Ramanujan", "C.V. Raman">>],
    [region |-> "United States", personas |-> <<"Elon Musk", "Steve Jobs", "Bill Gates", "Jeff Bezos", "Warren Buffett", "Benjamin Franklin", "Thomas Edison">>],
    [region |-> "United Kingdom", personas |-> <<"Stephen Hawking", "Alan Turing", "Isaac Newton", "Charles Darwin", "Tim Berners-Lee", "Winston Churchill">>],
    [region |-> "China", personas |-> <<"Jack Ma", "Confucius", "Lei Jun", "Robin Li", "Pony Ma">>],
    [region |-> "Japan", personas |-> <<"Akio Morita", "Masayoshi Son", "Hayao Miyazaki", "Satoshi Tajiri">>],
    [region |-> "Germany", personas |-> <<"Albert Einstein", "Werner Heisenberg", "Max Planck", "Karl Benz">>],
    [region |-> "France", personas |-> <<"Marie Curie", "Louis Pasteur", "Blaise Pascal", "René Descartes">>],
    [region |-> "Canada", personas |-> <<"Geoffrey Hinton", "Yoshua Bengio", "Marshall McLuhan">>],
    [region |-> "Australia", personas |-> <<"Steve Irwin", "Hugh Jackman", "Nicole Kidman">>],
    [region |-> "Brazil", personas |-> <<"Paulo Coelho", "Ayrton Senna", "Pelé">>],
    [region |-> "Russia", personas |-> <<"Dmitri Mendeleev", "Mikhail Lomonosov", "Sergey Brin">>],
    [region |-> "South Korea", personas |-> <<"Ban Ki-moon", "Lee Kun-hee">>],
    [region |-> "Italy", personas |-> <<"Leonardo da Vinci", "Galileo Galilei", "Enrico Fermi">>],
    [region |-> "Spain", personas |-> <<"Pablo Picasso", "Salvador Dalí", "Antoni Gaudí">>],
    [region |-> "Mexico", personas |-> <<"Frida Kahlo", "Octavio Paz", "Carlos Slim">>],
    [region |-> "Netherlands", personas |-> <<"Vincent van Gogh", "Christiaan Huygens">>],
    [region |-> "Switzerland", personas |-> <<"Albert Einstein", "Carl Jung", "Jean Piaget">>],
    [region |-> "Sweden", personas |-> <<"Alfred Nobel", "Ingvar Kamprad", "Greta Thunberg">>],
    [region |-> "South Africa", personas |-> <<"Nelson Mandela", "Elon Musk", "Desmond Tutu">>],
    [region |-> "Argentina", personas |-> <<"Jorge Luis Borges", "Lionel Messi">>],
    [region |-> "Poland", personas |-> <<"Marie Curie", "Nicolaus Copernicus">>],
    [region |-> "Turkey", personas |-> <<"Rumi", "Mustafa Kemal Atatürk">>],
    [region |-> "Indonesia", personas |-> <<"B.J. Habibie", "Soekarno">>],
    [region |-> "Saudi Arabia", personas |-> <<"Ibn Sina (Avicenna)", "Al-Khwarizmi">>],
    [region |-> "Egypt", personas |-> <<"Naguib Mahfouz", "Cleopatra">>],
    [region |-> "Israel", personas |-> <<"Albert Einstein", "Shimon Peres">>],
    [region |-> "Singapore", personas |-> <<"Lee Kuan Yew">>],
    [region |-> "Malaysia", personas |-> <<"Mahathir Mohamad">>],
    [region |-> "Thailand", personas |-> <<"Bhumibol Adulyadej">>],
    [region |-> "Philippines", personas |-> <<"José Rizal", "Manny Pacquiao">>],
    [region |-> "Vietnam", personas |-> <<"Ho Chi Minh">>],
    [region |-> "Pakistan", personas |-> <<"Malala Yousafzai", "Abdus Salam">>],
    [region |-> "Bangladesh", personas |-> <<"Muhammad Yunus", "Rabindranath Tagore">>],
    [region |-> "Nigeria", personas |-> <<"Chinua Achebe", "Wole Soyinka">>],
    [region |-> "Kenya", personas |-> <<"Wangari Maathai">>],
    [region |-> "Ghana", personas |-> <<"Kofi Annan">>],
    [region |-> "Ireland", personas |-> <<"James Joyce", "Oscar Wilde">>],
    [region |-> "New Zealand", personas |-> <<"Ernest Rutherford">>],
    [region |-> "Norway", personas |-> <<"Edvard Munch", "Roald Amundsen">>],
    [region |-> "Denmark", personas |-> <<"Niels Bohr", "Hans Christian Andersen">>],
    [region |-> "Finland", personas |-> <<"Linus Torvalds">>],
    [region |-> "Austria", personas |-> <<"Sigmund Freud", "Wolfgang Amadeus Mozart">>],
    [region |-> "Belgium", personas |-> <<"Georges Lemaître">>],
    [region |-> "Greece", personas |-> <<"Socrates", "Plato", "Aristotle">>],
    [region |-> "Portugal", personas |-> <<"Cristiano Ronaldo", "José Saramago">>],
    [region |-> "Czech Republic", personas |-> <<"Václav Havel">>],
    [region |-> "Chile", personas |-> <<"Pablo Neruda">>],
    [region |-> "Colombia", personas |-> <<"Gabriel García Márquez">>],
    [region |-> "Peru", personas |-> <<"Mario Vargas Llosa">>]>>

TOPIC_EXPERT_MAP ==
  <<[key |-> "python", experts |-> <<"Guido van Rossum", "Peter Norvig", "Wes McKinney">>],
    [key |-> "javascript", experts |-> <<"Brendan Eich", "Douglas Crockford", "Ryan Dahl">>],
    [key |-> "java", experts |-> <<"James Gosling", "Joshua Bloch", "Martin Fowler">>],
    [key |-> "ai", experts |-> <<"Geoffrey Hinton", "Yann LeCun", "Andrew Ng">>],
    [key |-> "machine learning", experts |-> <<"Andrew Ng", "Yoshua Bengio", "Fei-Fei Li">>],
    [key |-> "web development", experts |-> <<"Tim Berners-Lee", "Marc Andreessen", "Brendan Eich">>],
    [key |-> "mobile apps", experts |-> <<"Andy Rubin", "Steve Jobs", "Tim Cook">>],
    [key |-> "electricity", experts |-> <<"Thomas Edison", "Nikola Tesla", "Michael Faraday">>],
    [key |-> "bulb", experts |-> <<"Thomas Edison", "Nikola Tesla", "Joseph Swan">>],
    [key |-> "light", experts |-> <<"Thomas Edison", "Albert Einstein", "James Clerk Maxwell">>],
    [key |-> "physics", experts |-> <<"Albert Einstein", "Isaac Newton", "Richard Feynman">>],
    [key |-> "chemistry", experts |-> <<"Marie Curie", "Dmitri Mendeleev", "Linus Pauling">>],
    [key |-> "biology", experts |-> <<"Charles Darwin", "Gregor Mendel", "James Watson">>],
    [key |-> "space", experts |-> <<"Neil deGrasse Tyson", "Carl Sagan", "Stephen Hawking">>],
    [key |-> "startup", experts |-> <<"Paul Graham", "Sam Altman", "Eric Ries">>],
    [key |-> "business", experts |-> <<"Peter Drucker", "Warren Buffett", "Jack Welch">>],
    [key |-> "marketing", experts |-> <<"Seth Godin", "Philip Kotler", "Gary Vaynerchuk">>],
    [key |-> "investment", experts |-> <<"Warren Buffett", "Charlie Munger", "Benjamin Graham">>],
    [key |-> "mathematics", experts |-> <<"Albert Einstein", "Isaac Newton", "Srinivasa Ramanujan">>],
    [key |-> "calculus", experts |-> <<"Isaac Newton", "Gottfried Leibniz", "Leonhard Euler">>],
    [key |-> "statistics", experts |-> <<"Ronald Fisher", "Karl Pearson", "Florence Nightingale">>],
    [key |-> "philosophy", experts |-> <<"Socrates", "Plato", "Aristotle">>],
    [key |-> "psychology", experts |-> <<"Sigmund Freud", "Carl Jung", "B.F. Skinner">>],
    [key |-> "mindfulness", experts |-> <<"Dalai Lama", "Thich Nhat Hanh", "Eckhart Tolle">>],
    [key |-> "mental health", experts |-> <<"Sigmund Freud", "Carl Jung", "Viktor Frankl">>],
    [key |-> "therapy", experts |-> <<"Carl Rogers", "Aaron Beck", "Albert Ellis">>],
    [key |-> "depression", experts |-> <<"Aaron Beck", "Martin Seligman", "Kay Redfield Jamison">>],
    [key |-> "anxiety", experts |-> <<"David Burns", "Claire Weekes", "Edmund Bourne">>],
    [key |-> "meditation", experts |-> <<"Dalai Lama", "Jon Kabat-Zinn", "Thich Nhat Hanh">>],
    [key |-> "wellness", experts |-> <<"Deepak Chopra", "Andrew Weil", "Brené Brown">>],
    [key |-> "self-help", experts |-> <<"Tony Robbins", "Dale Carnegie", "Stephen Covey">>]>>

keyword_matches ==
  <<[keywords |-> <<"mental", "health", "therapy", "counseling", "psychiatric">>, experts |-> <<"Sigmund Freud", "Carl Jung", "Viktor Frankl">>],
    [keywords |-> <<"depression", "anxiety", "stress", "trauma">>, experts |-> <<"Aaron Beck", "Martin Seligman", "Bessel van der Kolk">>],
    [keywords |-> <<"meditation", "mindfulness", "zen", "spiritual">>, experts |-> <<"Dalai Lama", "Jon Kabat-Zinn", "Thich Nhat Hanh">>],
    [keywords |-> <<"programming", "coding", "software", "developer">>, experts |-> <<"Linus Torvalds", "Guido van Rossum", "Dennis Ritchie">>],
    [keywords |-> <<"ai", "artificial", "intelligence", "machine", "learning">>, experts |-> <<"Geoffrey Hinton", "Yann LeCun", "Andrew Ng">>],
    [keywords |-> <<"physics", "quantum", "relativity", "universe">>, experts |-> <<"Albert Einstein", "Richard Feynman", "Stephen Hawking">>],
    [keywords |-> <<"biology", "evolution", "genetics", "dna">>, experts |-> <<"Charles Darwin", "James Watson", "Francis Crick">>],
    [keywords |-> <<"chemistry", "chemical", "molecule", "atom">>, experts |-> <<"Marie Curie", "Linus Pauling", "Dmitri Mendeleev">>],
    [keywords |-> <<"business", "entrepreneur", "startup", "company">>, experts |-> <<"Peter Drucker", "Steve Jobs", "Warren Buffett">>],
    [keywords |-> <<"marketing", "sales", "advertising", "brand">>, experts |-> <<"Seth Godin", "Philip Kotler", "Gary Vaynerchuk">>],
    [keywords |-> <<"leadership", "management", "team", "organization">>, experts |-> <<"Simon Sinek", "Peter Drucker", "Jim Collins">>]>>

\* ------------------------------------------------------------------------
\* src/app.py: fallback_persona_selection (the Fallback Ranker)
\* ------------------------------------------------------------------------

\* names already placed in final_personas (the code's used_names set)
UsedNames(final) == {final[i][1] : i \in 1..Len(final)}

\* step 1: experts of the first key of TOPIC_EXPERT_MAP found in topic_lower
ExactTopicExperts(topic_lower) ==
  LET hits == {i \in 1..Len(TOPIC_EXPERT_MAP) :
                 Contains(topic_lower, TOPIC_EXPERT_MAP[i].key)}
  IN IF hits = {} THEN <<>>
     ELSE TOPIC_EXPERT_MAP[CHOOSE i \in hits : \A j \in hits : i <= j].experts

\* step 2: experts of the first keyword group with any keyword in topic_lower
KeywordExperts(topic_lower) ==
  LET hits == {i \in 1..Len(keyword_matches) :
                 \E k \in 1..Len(keyword_matches[i].keywords) :
                    Contains(topic_lower, keyword_matches[i].keywords[k])}
  IN IF hits = {} THEN <<>>
     ELSE keyword_matches[CHOOSE i \in hits : \A j \in hits : i <= j].experts

RECURSIVE AddTopicExperts(_, _)
\* step 3: append the topic experts, skipping used names, while fewer than 3
AddTopicExperts(final, experts) ==
  IF Len(experts) = 0 THEN final
  ELSE LET expert == Head(experts)
       IN IF expert \notin UsedNames(final) /\ Len(final) < 3
          THEN AddTopicExperts(Append(final, <<expert, "Topic-specific authority">>),
                               Tail(experts))
          ELSE AddTopicExperts(final, Tail(experts))

\* REGION_PERSONAS.get(user_region, []) of app.py
AppRegionList(user_region) ==
  LET hits == {i \in 1..Len(APP_REGION_PERSONAS) :
                 APP_REGION_PERSONAS[i].region = user_region}
  IN IF hits = {} THEN <<>>
     ELSE APP_REGION_PERSONAS[CHOOSE i \in hits : TRUE].personas

RECURSIVE AddRegionPersonaNoBreak(_, _)
\* a step 4 without the break: region personas are added while fewer than 3
AddRegionPersonaNoBreak(final, user_region) ==
  LET region_personas == AppRegionList(user_region)
      free == {i \in 1..Len(region_personas) :
                 region_personas[i] \notin UsedNames(final)}
  IN IF Len(final) >= 3 \/ free = {} THEN final
     ELSE AddRegionPersonaNoBreak(
            Append(final,
              <<region_personas[CHOOSE i \in free : \A j \in free : i <= j],
                "Renowned " \o user_region \o " expert">>),
            user_region)

\* step 4: one persona of the region's list, the first not used, then break
AddRegionPersona(final, user_region) ==
  IF Len(final) < 3
  THEN LET region_personas == AppRegionList(user_region)
           free == {i \in 1..Len(region_personas) :
                      region_personas[i] \notin UsedNames(final)}
       IN IF free = {} THEN final
          ELSE Append(final,
                 <<region_personas[CHOOSE i \in free : \A j \in free : i <= j],
                   "Renowned " \o user_region \o " expert">>)
  ELSE final

\* a variant of step 5 that forgets the used_names test
FillFamousNoDedupe(final) ==
  final \o [i \in 1..(3 - Min(3, Len(final))) |->
              <<FAMOUS_PERSONAS[i], "Renowned thinker">>]

RECURSIVE FillFamous(_)
\* step 5: while fewer than 3, append the first famous persona not used.
\* (With no unused famous persona left the code's while loop would not end;
\* FAMOUS_PERSONAS holds 21 distinct names, so that never happens.)
FillFamous(final) ==
  IF Len(final) >= 3 THEN final
  ELSE LET free == {i \in 1..Len(FAMOUS_PERSONAS) :
                      FAMOUS_PERSONAS[i] \notin UsedNames(final)}
       IN IF free = {} THEN final
          ELSE FillFamous(Append(final,
                 <<FAMOUS_PERSONAS[CHOOSE i \in free : \A j \in free : i <= j],
                   "Renowned thinker">>))

fallback_persona_selection(topic_arg, user_region) ==
  LET topic_lower == Lower(topic_arg)
      exact == ExactTopicExperts(topic_lower)
      topic_experts == IF exact = <<>> THEN KeywordExperts(topic_lower) ELSE exact
      s3 == AddTopicExperts(<<>>, topic_experts)
      s4 == AddRegionPersona(s3, user_region)
      s5 == FillFamous(s4)
  IN Take(s5, 3)

\* ------------------------------------------------------------------------
\* src/ai_agent.py: knowledge tables
\* ------------------------------------------------------------------------

REGION_PERSONAS ==
  <<[region |-> "India", categories |-> <<
        [category |-> "Science & Technology", personas |-> <<"Jagadish Chandra Bose", "C.V. Raman", "Vikram Sarabhai", "Homi Bhabha">>],
        [category |-> "Mathematics", personas |-> <<"Srinivasa Ramanujan", "Aryabhata">>],
        [category |-> "Philosophy & Spirituality", personas |-> <<"Ramakrishna Paramahamsa", "Jiddu Krishnamurti", "Swami Vivekananda">>],
        [category |-> "Business & Entrepreneurship", personas |-> <<"Ratan Tata", "Mukesh Ambani", "Narayana Murthy">>],
        [category |-> "Medicine", personas |-> <<"Sushruta", "Charaka">>],
        [category |-> "Literature", personas |-> <<"Rabindranath Tagore", "Premchand">>],
        [category |-> "Politics", personas |-> <<"Mahatma Gandhi", "Jawaharlal Nehru", "Dr. Ambedkar">>],
        [category |-> "Sports", personas |-> <<"Sachin Tendulkar", "Virat Kohli">>],
        [category |-> "Arts", personas |-> <<"Raja Ravi Varma">>],
        [category |-> "Astronomy", personas |-> <<"Aryabhata", "Bhaskara II">>]>>],
    [region |-> "United States", categories |-> <<
        [category |-> "Science & Technology", personas |-> <<"Albert Einstein", "Isaac Newton", "Stephen Hawking", "Richard Feynman">>],
        [category |-> "Computer Science", personas |-> <<"Alan Turing", "Grace Hopper", "Steve Jobs", "Bill Gates">>],
        [category |-> "Physics", personas |-> <<"Richard Feynman", "J. Robert Oppenheimer", "Enrico Fermi">>],
        [category |-> "Business & Entrepreneurship", personas |-> <<"Warren Buffett", "Elon Musk", "Steve Jobs", "Jeff Bezos">>],
        [category |-> "Literature", personas |-> <<"Mark Twain", "Ernest Hemingway", "F. Scott Fitzgerald">>],
        [category |-> "Medicine", personas |-> <<"Jonas Salk", "Louis Pasteur">>],
        [category |-> "Psychology", personas |-> <<"Carl Rogers", "B.F. Skinner">>],
        [category |-> "Sports", personas |-> <<"Michael Jordan", "Muhammad Ali">>],
        [category |-> "Music", personas |-> <<"Duke Ellington", "Louis Armstrong">>]>>],
    [region |-> "United Kingdom", categories |-> <<
        [category |-> "Science & Technology", personas |-> <<"Isaac Newton", "Stephen Hawking", "Alan Turing">>],
        [category |-> "Literature", personas |-> <<"William Shakespeare", "Jane Austen", "Charles Dickens">>],
        [category |-> "Physics", personas |-> <<"Michael Faraday", "Paul Dirac">>],
        [category |-> "Medicine", personas |-> <<"Edward Jenner", "Florence Nightingale">>],
        [category |-> "Philosophy", personas |-> <<"David Hume", "Bertrand Russell">>],
        [category |-> "Economics", personas |-> <<"Adam Smith", "John Maynard Keynes">>],
        [category |-> "Biology", personas |-> <<"Charles Darwin", "Joseph Banks">>]>>],
    [region |-> "Germany", categories |-> <<
        [category |-> "Science & Technology", personas |-> <<"Albert Einstein", "Max Planck", "Werner Heisenberg">>],
        [category |-> "Philosophy", personas |-> <<"Immanuel Kant", "Georg Hegel", "Friedrich Nietzsche">>],
        [category |-> "Music", personas |-> <<"Johann Sebastian Bach", "Ludwig van Beethoven", "Richard Wagner">>],
        [category |-> "Physics", personas |-> <<"Max Born", "Erwin Schrödinger">>],
        [category |-> "Literature", personas |-> <<"Johann Wolfgang von Goethe", "Thomas Mann">>],
        [category |-> "Psychology", personas |-> <<"Sigmund Freud", "Carl Jung">>]>>],
    [region |-> "France", categories |-> <<
        [category |-> "Science & Technology", personas |-> <<"Pierre Curie", "Marie Curie", "Louis Pasteur">>],
        [category |-> "Philosophy", personas |-> <<"René Descartes", "Jean-Paul Sartre", "Michel Foucault">>],
        [category |-> "Literature", personas |-> <<"Victor Hugo", "Alexandre Dumas", "Marcel Proust">>],
        [category |-> "Mathematics", personas |-> <<"Henri Poincaré", "Évariste Galois">>],
        [category |-> "Art", personas |-> <<"Leonardo da Vinci", "Vincent van Gogh">>]>>],
    [region |-> "Japan", categories |-> <<
        [category |-> "Science & Technology", personas |-> <<"Yoshiro Nakamatsu", "Akira Yoshino">>],
        [category |-> "Philosophy", personas |-> <<"Masao Abe", "Kitaro Nishida">>],
        [category |-> "Literature", personas |-> <<"Haruki Murakami", "Yasunari Kawabata">>],
        [category |-> "Martial Arts", personas |-> <<"Gichin Funakoshi", "Jigoro Kano">>],
        [category |-> "Art & Design", personas |-> <<"Katsushika Hokusai">>]>>],
    [region |-> "China", categories |-> <<
        [category |-> "Science & Technology", personas |-> <<"Tu Youyou">>],
        [category |-> "Philosophy", personas |-> <<"Confucius", "Laozi", "Zhuangzi">>],
        [category |-> "Medicine", personas |-> <<"Hua Tuo", "Li Shizhen">>],
        [category |-> "Martial Arts", personas |-> <<"Bruce Lee">>],
        [category |-> "Literature", personas |-> <<"Luo Guanzhong">>],
        [category |-> "Art", personas |-> <<"Zhang Daqian">>]>>],
    [region |-> "Global", categories |-> <<
        [category |-> "Science & Technology", personas |-> <<"Albert Einstein", "Isaac Newton", "Marie Curie">>],
        [category |-> "Philosophy", personas |-> <<"Plato", "Aristotle", "Socrates">>],
        [category |-> "Business", personas |-> <<"Peter Drucker", "Jack Welch">>],
        [category |-> "Psychology", personas |-> <<"Sigmund Freud", "Carl Jung", "Abraham Maslow">>],
        [category |-> "Economics", personas |-> <<"Adam Smith", "Thomas Piketty">>]>>]>>

TOPIC_CATEGORY_MAP ==
  <<[key_phrase |-> "python", cat |-> "Computer Science"],
    [key_phrase |-> "programming", cat |-> "Computer Science"],
    [key_phrase |-> "coding", cat |-> "Computer Science"],
    [key_phrase |-> "web development", cat |-> "Computer Science"],
    [key_phrase |-> "machine learning", cat |-> "Computer Science"],
    [key_phrase |-> "ai", cat |-> "Computer Science"],
    [key_phrase |-> "artificial intelligence", cat |-> "Computer Science"],
    [key_phrase |-> "data science", cat |-> "Computer Science"],
    [key_phrase |-> "physics", cat |-> "Science & Technology"],
    [key_phrase |-> "quantum", cat |-> "Science & Technology"],
    [key_phrase |-> "relativity", cat |-> "Science & Technology"],
    [key_phrase |-> "astronomy", cat |-> "Astronomy"],
    [key_phrase |-> "mathematics", cat |-> "Mathematics"],
    [key_phrase |-> "business", cat |-> "Business & Entrepreneurship"],
    [key_phrase |-> "entrepreneurship", cat |-> "Business & Entrepreneurship"],
    [key_phrase |-> "startup", cat |-> "Business & Entrepreneurship"],
    [key_phrase |-> "psychology", cat |-> "Psychology"],
    [key_phrase |-> "mental health", cat |-> "Psychology"],
    [key_phrase |-> "philosophy", cat |-> "Philosophy"],
    [key_phrase |-> "literature", cat |-> "Literature"],
    [key_phrase |-> "medicine", cat |-> "Medicine"],
    [key_phrase |-> "health", cat |-> "Medicine"],
    [key_phrase |-> "sports", cat |-> "Sports"],
    [key_phrase |-> "music", cat |-> "Music"],
    [key_phrase |-> "art", cat |-> "Arts"]>>

\* ------------------------------------------------------------------------
\* src/ai_agent.py: search_expert_database (the Candidate Retriever)
\* ------------------------------------------------------------------------

\* a classifier that lets the last matching key phrase win
ClassifyLastHit(topic_arg) ==
  LET topic_lower == Lower(topic_arg)
      hits == {i \in 1..Len(TOPIC_CATEGORY_MAP) :
                 Contains(topic_lower, TOPIC_CATEGORY_MAP[i].key_phrase)}
  IN IF hits = {} THEN "Science & Technology"
     ELSE TOPIC_CATEGORY_MAP[CHOOSE i \in hits : \A j \in hits : i >= j].cat

\* the classification loop: category of the first key phrase of
\* TOPIC_CATEGORY_MAP found in topic_lower, else the default
Classify(topic_arg) ==
  LET topic_lower == Lower(topic_arg)
      hits == {i \in 1..Len(TOPIC_CATEGORY_MAP) :
                 Contains(topic_lower, TOPIC_CATEGORY_MAP[i].key_phrase)}
  IN IF hits = {} THEN "Science & Technology"
     ELSE TOPIC_CATEGORY_MAP[CHOOSE i \in hits : \A j \in hits : i <= j].cat

\* "reg in REGION_PERSONAS"
InCatalog(reg) == \E i \in 1..Len(REGION_PERSONAS) : REGION_PERSONAS[i].region = reg

\* REGION_PERSONAS.get(reg, {}): the region's categories, in insertion order
RegionData(reg) ==
  IF InCatalog(reg)
  THEN REGION_PERSONAS[CHOOSE i \in 1..Len(REGION_PERSONAS) :
                          REGION_PERSONAS[i].region = reg].categories
  ELSE <<>>

\* categories.get(category, [])
CategoryList(categories, category) ==
  LET hits == {i \in 1..Len(categories) : categories[i].category = category}
  IN IF hits = {} THEN <<>>
     ELSE categories[CHOOSE i \in hits : TRUE].personas

\* a pooled candidate that carries a priority like the regional ones
CategoryMatchRanked(expert, reg, category) ==
  [name |-> expert, relevance |-> "high", source |-> "regional_database",
   region |-> reg, category |-> category, match_type |-> "category_match",
   priority |-> 1]

CategoryMatch(expert, reg, category) ==
  [name |-> expert, relevance |-> "high", source |-> "regional_database",
   region |-> reg, category |-> category, match_type |-> "category_match"]

ExactRegionalMatch(expert, reg, category) ==
  [name |-> expert, relevance |-> "high", source |-> "regional_database",
   region |-> reg, category |-> category, match_type |-> "exact_regional_match",
   priority |-> 1]

GlobalFallback(expert, reg, category) ==
  [name |-> expert, relevance |-> "medium", source |-> "global_fallback",
   region |-> "Global", category |-> category, match_type |-> "global_fallback",
   priority |-> 2,
   note |-> "No experts in " \o reg \o ", using global expert"]

RECURSIVE GlobalSearchFrom(_, _)
\* the Global branch: every catalog region but "Global", in insertion order
GlobalSearchFrom(i, category) ==
  IF i > Len(REGION_PERSONAS) THEN <<>>
  ELSE LET reg == REGION_PERSONAS[i].region
           experts == CategoryList(REGION_PERSONAS[i].categories, category)
           here == IF reg # "Global"
                   THEN [k \in 1..Len(experts) |-> CategoryMatch(experts[k], reg, category)]
                   ELSE <<>>
       IN here \o GlobalSearchFrom(i + 1, category)

\* a regional search that relaxes to the pooled regions instead of "Global"
RegionalSearchRelaxed(reg, category) ==
  LET experts_in_region == CategoryList(RegionData(reg), category)
  IN IF Len(experts_in_region) > 0
     THEN [k \in 1..Len(experts_in_region) |->
             ExactRegionalMatch(experts_in_region[k], reg, category)]
     ELSE GlobalSearchFrom(1, category)

\* a regional search that always appends the "Global" list to the region's own
RegionalSearchMixed(reg, category) ==
  LET experts_in_region == CategoryList(RegionData(reg), category)
      global_experts == CategoryList(RegionData("Global"), category)
  IN [k \in 1..Len(experts_in_region) |->
        ExactRegionalMatch(experts_in_region[k], reg, category)]
     \o [k \in 1..Len(global_experts) |->
          GlobalFallback(global_experts[k], reg, category)]

\* the regional branch: the region's own list, else the "Global" list
RegionalSearch(reg, category) ==
  LET experts_in_region == CategoryList(RegionData(reg), category)
      results == [k \in 1..Len(experts_in_region) |->
                    ExactRegionalMatch(experts_in_region[k], reg, category)]
      global_experts == CategoryList(RegionData("Global"), category)
  IN IF Len(results) = 0 /\ InCatalog("Global")
     THEN [k \in 1..Len(global_experts) |->
             GlobalFallback(global_experts[k], reg, category)]
     ELSE results

\* a Global branch that forgets to leave out the "Global" key
GlobalSearchWithGlobalKey(category) ==
  LET all == [i \in 1..Len(REGION_PERSONAS) |->
                LET experts == CategoryList(REGION_PERSONAS[i].categories, category)
                IN [k \in 1..Len(experts) |->
                      CategoryMatch(experts[k], REGION_PERSONAS[i].region, category)]]
      Flat[i \in 0..Len(all)] == IF i = 0 THEN <<>> ELSE Flat[i - 1] \o all[i]
  IN Flat[Len(all)]

GlobalSearch(category) == GlobalSearchFrom(1, category)

\* a search that returns everything it collected
search_expert_database_unbounded(topic_arg, reg) ==
  LET category == Classify(topic_arg)
  IN IF reg = "Global" THEN GlobalSearch(category)
     ELSE RegionalSearch(reg, category)

\* the list the tool serialises with json.dumps(results[:10])
search_expert_database(topic_arg, reg) ==
  LET category == Classify(topic_arg)
      results == IF reg = "Global" THEN GlobalSearch(category)
                 ELSE RegionalSearch(reg, category)
  IN Take(results, 10)

\* ------------------------------------------------------------------------
\* json.dumps of the values the tools return (ensure_ascii, ", " and ": ")
\* ------------------------------------------------------------------------

\* one character of a JSON string literal
JsonChar(c) ==
  CASE c = "\"" -> "\\\""
    [] c = "\\" -> "\\\\"
    [] c = "é" -> "\\u00e9"
    [] c = "É" -> "\\u00c9"
    [] c = "ö" -> "\\u00f6"
    [] OTHER -> c

RECURSIVE JsonEscape(_)
JsonEscape(s) ==
  IF Len(s) = 0 THEN ""
  ELSE JsonChar(SubSeq(s, 1, 1)) \o JsonEscape(SubSeq(s, 2, Len(s)))

JsonString(s) == "\"" \o JsonEscape(s) \o "\""

JsonBool(b) == IF b THEN "true" ELSE "false"

\* "key": value
JsonMember(key, value) == JsonString(key) \o ": " \o value

RECURSIVE JsonJoin(_)
\* ", ".join(parts)
JsonJoin(parts) ==
  IF Len(parts) = 0 THEN ""
  ELSE IF Len(parts) = 1 THEN parts[1]
  ELSE parts[1] \o ", " \o JsonJoin(Tail(parts))

JsonObject(members) == "{" \o JsonJoin(members) \o "}"

JsonArray(elements) == "[" \o JsonJoin(elements) \o "]"

\* json.dumps of one candidate of search_expert_database, keys in insertion order
JsonCandidate(c) ==
  JsonObject(
    << JsonMember("name", JsonString(c.name)),
       JsonMember("relevance", JsonString(c.relevance)),
       JsonMember("source", JsonString(c.source)),
       JsonMember("region", JsonString(c.region)),
       JsonMember("category", JsonString(c.category)),
       JsonMember("match_type", JsonString(c.match_type)) >>
    \o (IF "priority" \in DOMAIN c
        THEN << JsonMember("priority", ToString(c.priority)) >> ELSE << >>)
    \o (IF "note" \in DOMAIN c
        THEN << JsonMember("note", JsonString(c.note)) >> ELSE << >>))

\* the string search_expert_database returns
SearchExpertDatabaseJson(topic_arg, reg) ==
  LET results == search_expert_database(topic_arg, reg)
  IN JsonArray([i \in 1..Len(results) |-> JsonCandidate(results[i])])

\* ------------------------------------------------------------------------
\* src/ai_agent.py: check_region_match (the Region Match Verifier)
\* ------------------------------------------------------------------------

\* a check that looks "Global" up in the catalog like any other region
check_region_match_no_global_case(persona_name, reg) ==
  LET region_data == RegionData(reg)
      hits == {i \in 1..Len(region_data) :
                 InList(persona_name, region_data[i].personas)}
  IN [persona |-> persona_name, region |-> reg, is_from_region |-> hits # {},
      regional_bonus |-> IF hits # {} THEN 20 ELSE 0,
      found_in_category |->
        IF hits # {}
        THEN region_data[CHOOSE i \in hits : \A j \in hits : i <= j].category
        ELSE "null"]

\* a check that reports the last category listing the persona
check_region_match_last_category(persona_name, reg) ==
  IF reg = "Global"
  THEN [persona |-> persona_name, region |-> reg, is_from_region |-> TRUE,
        regional_bonus |-> 0, note |-> "Global region accepts all personas"]
  ELSE LET region_data == RegionData(reg)
           hits == {i \in 1..Len(region_data) :
                      InList(persona_name, region_data[i].personas)}
       IN [persona |-> persona_name, region |-> reg, is_from_region |-> hits # {},
           regional_bonus |-> IF hits # {} THEN 20 ELSE 0,
           found_in_category |->
             IF hits # {}
             THEN region_data[CHOOSE i \in hits : \A j \in hits : i >= j].category
             ELSE "null"]

\* a check that looks only at the first category of the region
check_region_match_first_category(persona_name, reg) ==
  IF reg = "Global"
  THEN [persona |-> persona_name, region |-> reg, is_from_region |-> TRUE,
        regional_bonus |-> 0, note |-> "Global region accepts all personas"]
  ELSE LET region_data == RegionData(reg)
           is_match == /\ Len(region_data) > 0
                       /\ InList(persona_name, region_data[1].personas)
       IN [persona |-> persona_name, region |-> reg, is_from_region |-> is_match,
           regional_bonus |-> IF is_match THEN 20 ELSE 0,
           found_in_category |->
             IF is_match THEN region_data[1].category ELSE "null"]

\* the dict check_region_match serialises
check_region_match(persona_name, reg) ==
  IF reg = "Global"
  THEN [persona |-> persona_name, region |-> reg, is_from_region |-> TRUE,
        regional_bonus |-> 0, note |-> "Global region accepts all personas"]
  ELSE LET region_data == RegionData(reg)
           hits == {i \in 1..Len(region_data) :
                      InList(persona_name, region_data[i].personas)}
           is_match == hits # {}
       IN [persona |-> persona_name, region |-> reg, is_from_region |-> is_match,
           regional_bonus |-> IF is_match THEN 20 ELSE 0,
           found_in_category |->
             IF is_match
             THEN region_data[CHOOSE i \in hits : \A j \in hits : i <= j].category
             ELSE "null"]

\* the string check_region_match returns (None is serialised as null)
CheckRegionMatchJson(persona_name, reg) ==
  LET r == check_region_match(persona_name, reg)
  IN JsonObject(
       << JsonMember("persona", JsonString(r.persona)),
          JsonMember("region", JsonString(r.region)),
          JsonMember("is_from_region", JsonBool(r.is_from_region)),
          JsonMember("regional_bonus", ToString(r.regional_bonus)) >>
       \o (IF "note" \in DOMAIN r
           THEN << JsonMember("note", JsonString(r.note)) >>
           ELSE << JsonMember("found_in_category",
                              IF r.is_from_region THEN JsonString(r.found_in_category)
                              ELSE "null") >>))

\* ------------------------------------------------------------------------
\* src/ai_agent.py: get_persona_wikipedia_info
\* The tools' collaborators (the scraper, the capability) are the environment:
\* "ext" is what the collaborator did during the call.
\* ------------------------------------------------------------------------

\* what scrape_wikipedia_summary may do
WikiOutcomes == {"found", "missing", "raises"}

\* the bio the scraper finds (text of the fetched page)
WikiBio(persona_name) == persona_name \o " was a pioneer of the field."

get_persona_wikipedia_info(persona_name, ext) ==
  IF ext = "found"
  THEN JsonObject(<< JsonMember("name", JsonString(persona_name)),
                     JsonMember("bio", JsonString(WikiBio(persona_name))),
                     JsonMember("key_facts", "{}"),
                     JsonMember("source", JsonString("wikipedia")),
                     JsonMember("found", "true") >>)
  ELSE IF ext = "missing"
  THEN JsonObject(<< JsonMember("name", JsonString(persona_name)),
                     JsonMember("found", "false"),
                     JsonMember("error",
                        JsonString("Wikipedia page not found or inaccessible")) >>)
  ELSE JsonObject(<< JsonMember("name", JsonString(persona_name)),
                     JsonMember("found", "false"),
                     JsonMember("error", JsonString("scraper failed")) >>)

\* ------------------------------------------------------------------------
\* src/ai_agent.py: validate_persona_expertise
\* JSON values: [t |-> "int" | "float" | "str" | "bool" | "null" | "dict" |
\* "list", ...]; a dict is its members in order.
\* The capability's answer is its text cut at the fence delimiters: a
\* sequence of segments, each a delimiter ("```json" or a "```" that is not
\* followed by json), a complete JSON text, prose, or a piece of a JSON text
\* that a delimiter cuts.  "whole" is what json.loads gives on the entire
\* text.
\* ------------------------------------------------------------------------

JInt(n) == [t |-> "int", n |-> n]
JFloat(s) == [t |-> "float", s |-> s]
JStr(s) == [t |-> "str", s |-> s]
JBool(b) == [t |-> "bool", b |-> b]
JNull == [t |-> "null"]
JObj(members) == [t |-> "dict", members |-> members]
JArr(items) == [t |-> "list", items |-> items]
JInvalid == [t |-> "invalid"]
Member(key, value) == [key |-> key, value |-> value]

FenceJson == [kind |-> "fence_json"]
Fence == [kind |-> "fence"]
JsonText(v) == [kind |-> "json", v |-> v]
Prose == [kind |-> "prose"]
Piece == [kind |-> "piece"]

IsMarker(seg) == seg.kind \in {"fence_json", "fence"}

\* an answer of the capability
TextAnswer(segs, whole) == [kind |-> "text", segs |-> segs, whole |-> whole]

\* generate_content raises
CallFails == [kind |-> "raises"]

\* generate_content returns a response whose .text raises (no valid part)
TextFails == [kind |-> "blocked"]

\* lines 290-293: text.split("```json")[1].split("```")[0] when the text
\* holds "```json", else text.split("```")[1].split("```")[0] when it holds
\* "```", else the text
StripFence(segs) ==
  LET json_fences == {i \in 1..Len(segs) : segs[i].kind = "fence_json"}
      fences == {i \in 1..Len(segs) : IsMarker(segs[i])}
      first == IF json_fences # {}
               THEN CHOOSE i \in json_fences : \A j \in json_fences : i <= j
               ELSE IF fences # {}
               THEN CHOOSE i \in fences : \A j \in fences : i <= j
               ELSE 0
      rest == SubSeq(segs, first + 1, Len(segs))
      ends == {i \in 1..Len(rest) : IsMarker(rest[i])}
  IN IF first = 0 THEN segs
     ELSE IF ends = {} THEN rest
     ELSE SubSeq(rest, 1, (CHOOSE i \in ends : \A j \in ends : i <= j) - 1)

\* json.loads: a value for exactly one complete JSON text, else it raises
JsonLoads(segs) ==
  IF Len(segs) = 1 /\ segs[1].kind = "json" THEN segs[1].v ELSE JInvalid

\* the fixed fallback of the except branch
ValidatorFallback ==
  JObj(<< Member("score", JInt(60)),
          Member("reasoning", JStr("Validation unavailable")),
          Member("is_expert", JBool(TRUE)) >>)

\* a validator that parses the text without stripping a fence
ValidateResultUnrepaired(resp) ==
  IF resp.kind = "text" /\ JsonLoads(resp.segs).t = "dict"
  THEN JsonLoads(resp.segs)
  ELSE ValidatorFallback

\* the dict validate_persona_expertise serialises: result of json.loads when
\* result.get works on it (a dict), the fallback when anything raised
ValidateResult(resp) ==
  IF resp.kind # "text" THEN ValidatorFallback
  ELSE LET loaded == JsonLoads(StripFence(resp.segs))
       IN IF loaded.t = "dict" THEN loaded ELSE ValidatorFallback

\* json.dumps of a scalar
JsonValueText(v) ==
  CASE v.t = "int" -> ToString(v.n)
    [] v.t = "float" -> v.s
    [] v.t = "str" -> JsonString(v.s)
    [] v.t = "bool" -> JsonBool(v.b)
    [] OTHER -> "null"

RECURSIVE DumpMembers(_)
\* the members of a dict of scalars, each as json.dumps writes it
DumpMembers(members) ==
  IF members = <<>> THEN <<>>
  ELSE <<JsonMember(Head(members).key, JsonValueText(Head(members).value))>>
       \o DumpMembers(Tail(members))

\* json.dumps of a dict of scalars
DumpObject(obj) == JsonObject(DumpMembers(obj.members))

\* an object as the prompt asks for it
ScoredObject(score) ==
  JObj(<< Member("score", score),
          Member("reasoning", JStr("Pioneer of the field")),
          Member("is_expert", JBool(TRUE)) >>)

\* an object without a score
UnscoredObject ==
  JObj(<< Member("reasoning", JStr("Cannot rate")), Member("is_expert", JBool(FALSE)) >>)

\* what the capability may do when asked to score, by name
ValidatorResponse(ext) ==
  CASE ext = "json" -> TextAnswer(<<JsonText(ScoredObject(JInt(85)))>>, ScoredObject(JInt(85)))
    [] ext = "fenced" ->
         TextAnswer(<<FenceJson, JsonText(ScoredObject(JInt(85))), Fence>>, JInvalid)
    [] ext = "fenced_in_prose" ->
         TextAnswer(<<Prose, FenceJson, JsonText(ScoredObject(JInt(85))), Fence, Prose>>, JInvalid)
    [] ext = "plain_fence" ->
         TextAnswer(<<Fence, JsonText(ScoredObject(JInt(85))), Fence>>, JInvalid)
    [] ext = "labelled_fence" ->
         TextAnswer(<<Fence, Prose, JsonText(ScoredObject(JInt(85))), Fence>>, JInvalid)
    [] ext = "open_fence" ->
         TextAnswer(<<FenceJson, JsonText(ScoredObject(JInt(85)))>>, JInvalid)
    [] ext = "garbage" -> TextAnswer(<<Prose>>, JInvalid)
    [] ext = "object_in_prose" ->
         TextAnswer(<<Prose, JsonText(ScoredObject(JInt(85)))>>, JInvalid)
    [] ext = "empty" -> TextAnswer(<<>>, JInvalid)
    [] ext = "list" ->
         TextAnswer(<<JsonText(JArr(<<ScoredObject(JInt(85))>>))>>,
                    JArr(<<ScoredObject(JInt(85))>>))
    [] ext = "number" -> TextAnswer(<<JsonText(JInt(85))>>, JInt(85))
    [] ext = "null" -> TextAnswer(<<JsonText(JNull)>>, JNull)
    [] ext = "backticks_in_string" ->
         TextAnswer(<<Piece, Fence, Piece>>, ScoredObject(JInt(85)))
    [] ext = "score_150" ->
         TextAnswer(<<JsonText(ScoredObject(JInt(150)))>>, ScoredObject(JInt(150)))
    [] ext = "score_negative" ->
         TextAnswer(<<JsonText(ScoredObject(JInt(0 - 5)))>>, ScoredObject(JInt(0 - 5)))
    [] ext = "score_float" ->
         TextAnswer(<<JsonText(ScoredObject(JFloat("72.5")))>>, ScoredObject(JFloat("72.5")))
    [] ext = "score_text" ->
         TextAnswer(<<FenceJson, JsonText(ScoredObject(JStr("high"))), Fence>>, JInvalid)
    [] ext = "score_missing" -> TextAnswer(<<JsonText(UnscoredObject)>>, UnscoredObject)
    [] ext = "blocked" -> TextFails
    [] OTHER -> CallFails

ValidatorOutcomes ==
  {"json", "fenced", "fenced_in_prose", "plain_fence", "labelled_fence",
   "open_fence", "garbage", "object_in_prose", "empty", "list", "number",
   "null", "backticks_in_string", "score_150", "score_negative", "score_float",
   "score_text", "score_missing", "blocked", "raises"}

\* the string returned: json.dumps of the parsed object or of the fallback
validate_persona_expertise(persona_name, topic_arg, bio, reg, ext) ==
  DumpObject(ValidateResult(ValidatorResponse(ext)))

\* ------------------------------------------------------------------------
\* src/ai_agent.py: process_tool_call
\* ------------------------------------------------------------------------

\* tool_input.get(key, default)
Get(tool_input, key, default) ==
  IF key \in DOMAIN tool_input THEN tool_input[key] ELSE default

\* a dispatcher that answers null for a name it does not know
process_tool_call_silent(tool_name, tool_input, ext) ==
  IF tool_name = "search_expert_database"
  THEN SearchExpertDatabaseJson(Get(tool_input, "topic", ""),
                                Get(tool_input, "region", "Global"))
  ELSE IF tool_name = "get_persona_wikipedia_info"
  THEN get_persona_wikipedia_info(Get(tool_input, "persona_name", ""), ext)
  ELSE IF tool_name = "validate_persona_expertise"
  THEN validate_persona_expertise(Get(tool_input, "persona_name", ""),
                                  Get(tool_input, "topic", ""),
                                  Get(tool_input, "bio", ""),
                                  Get(tool_input, "region", "Global"), ext)
  ELSE IF tool_name = "check_region_match"
  THEN CheckRegionMatchJson(Get(tool_input, "persona_name", ""),
                            Get(tool_input, "region", "Global"))
  ELSE "null"

\* the names AGENT_TOOLS declares
DeclaredTools ==
  {"search_expert_database", "get_persona_wikipedia_info",
   "validate_persona_expertise", "check_region_match"}

process_tool_call(tool_name, tool_input, ext) ==
  IF tool_name = "search_expert_database"
  THEN SearchExpertDatabaseJson(Get(tool_input, "topic", ""),
                                Get(tool_input, "region", "Global"))
  ELSE IF tool_name = "get_persona_wikipedia_info"
  THEN get_persona_wikipedia_info(Get(tool_input, "persona_name", ""), ext)
  ELSE IF tool_name = "validate_persona_expertise"
  THEN validate_persona_expertise(Get(tool_input, "persona_name", ""),
                                  Get(tool_input, "topic", ""),
                                  Get(tool_input, "bio", ""),
                                  Get(tool_input, "region", "Global"), ext)
  ELSE IF tool_name = "check_region_match"
  THEN CheckRegionMatchJson(Get(tool_input, "persona_name", ""),
                            Get(tool_input, "region", "Global"))
  ELSE JsonObject(<< JsonMember("error", JsonString("Unknown tool: " \o tool_name)) >>)

\* ------------------------------------------------------------------------
\* src/ai_agent.py: parsing and normalising the agent's final answer
\* The final text is described by what each parsing tier finds in it:
\*   fence  the first ```json [...] ``` block: absent, broken (json.loads
\*          raises on it) or an array of items
\*   whole  json.loads of the whole text: invalid, or a JSON value
\*   lines  the text's lines: whether a line starts with "N." or "-", has
\*          a ":", and the name and description around the ":"
\* A JSON value is [t |-> "list" | "dict" | "scalar", v |-> ...].
\* ------------------------------------------------------------------------

JsonList(items) == [t |-> "list", v |-> items]

JsonDict(name, description) ==
  [t |-> "dict", v |-> [name |-> name, description |-> description]]

\* a dict with a name and no description
JsonDictNameOnly(name) == [t |-> "dict", v |-> [name |-> name]]

JsonScalar(s) == [t |-> "scalar", v |-> s]

\* tier 3: the lines that look like "1. Name: description" or "- Name: description"
ScanLines(lines) ==
  LET F[i \in 0..Len(lines)] ==
        IF i = 0 THEN <<>>
        ELSE IF lines[i].marker /\ lines[i].colon
             THEN Append(F[i - 1], JsonDict(lines[i].name, lines[i].desc))
             ELSE F[i - 1]
  IN JsonList(F[Len(lines)])

\* tiers 1 and 2 fused with the broken-fence case: json.loads raising on the
\* fenced block is caught by the outer except and leaves personas = []
ParseFinalAnswer(text) ==
  IF text.fence.kind = "array" THEN JsonList(text.fence.v)
  ELSE IF text.fence.kind = "broken" THEN JsonList(<<>>)
  ELSE IF text.whole.kind = "value" THEN text.whole.v
  ELSE ScanLines(text.lines)

\* final_personas: dicts and lists of 2 or more become (name, description)
Normalize(personas) ==
  IF personas.t = "list"
  THEN LET items == personas.v
           F[i \in 0..Len(items)] ==
             IF i = 0 THEN <<>>
             ELSE LET p == items[i]
                  IN IF p.t = "dict"
                     THEN Append(F[i - 1], <<Get(p.v, "name", "Unknown"),
                                             Get(p.v, "description", "Expert")>>)
                     ELSE IF p.t = "list" /\ Len(p.v) >= 2
                     THEN Append(F[i - 1], <<p.v[1], p.v[2]>>)
                     ELSE F[i - 1]
       IN F[Len(items)]
  ELSE <<>>

\* ------------------------------------------------------------------------
\* src/simple_agent.py: parse_persona_response, fallback_selection, DEMO_MAP
\* A response text is its lines: the name and description the regular
\* expression finds around the separator, sep = FALSE when it finds none.
\* ------------------------------------------------------------------------

parse_persona_response(text) ==
  LET F[i \in 0..Len(text)] ==
        IF i = 0 THEN <<>>
        ELSE IF /\ text[i].sep
                /\ Len(text[i].name) >= 2
                /\ ~Contains(text[i].name, "Here")
             THEN Append(F[i - 1], <<text[i].name, text[i].desc>>)
             ELSE F[i - 1]
  IN F[Len(text)]

fallback_selection(topic_arg) ==
  << <<"AI Agent Search Failed", "Could not connect to Gemini">>,
     <<"Try Again", "Please rephrase your topic">>,
     <<"Albert Einstein", "Default expert">> >>

DEMO_MAP ==
  <<[key |-> "helicopter shot", experts |-> <<"Mahendra Singh Dhoni", "Hardik Pandya", "Kieron Pollard">>],
    [key |-> "python", experts |-> <<"Guido van Rossum", "Linus Torvalds", "Peter Norvig">>],
    [key |-> "relativity", experts |-> <<"Albert Einstein", "Stephen Hawking", "Richard Feynman">>],
    [key |-> "evolution", experts |-> <<"Charles Darwin", "Richard Dawkins", "Stephen Jay Gould">>]>>

\* the experts of the first DEMO_MAP key found in the lowercased topic
DemoExperts(topic_arg) ==
  LET topic_lower == Lower(topic_arg)
      hits == {i \in 1..Len(DEMO_MAP) : Contains(topic_lower, DEMO_MAP[i].key)}
  IN IF hits = {} THEN <<>>
     ELSE DEMO_MAP[CHOOSE i \in hits : \A j \in hits : i <= j].experts

\* the list returned on a DEMO_MAP hit
DemoResult(topic_arg) ==
  LET experts == DemoExperts(topic_arg)
  IN [i \in 1..Len(experts) |-> <<experts[i], "Expert in " \o topic_arg>>]

\* a list with one more model to try
models_to_try_longer ==
  <<"gemini-2.5-flash", "gemini-2.0-flash-exp", "gemini-1.5-flash", "gemini-1.5-pro">>

\* the models tried, in order
models_to_try == <<"gemini-2.5-flash", "gemini-2.0-flash-exp", "gemini-1.5-flash">>

\* "if len(personas) >= 3: return personas[:3]" after the first answer
SimpleFirstReturns(personas) == Len(personas) >= 3

\* a retry that returns whatever it parsed, the empty list included
SimpleRetryResultUnchecked(personas, topic_arg) == personas

\* after the retry: the parsed list when it holds a pair, else the placeholders
SimpleRetryResult(personas, topic_arg) ==
  IF Len(personas) >= 1 THEN personas ELSE fallback_selection(topic_arg)

\* ------------------------------------------------------------------------
\* src/app.py: find_relevant_personas
\* ------------------------------------------------------------------------

\* a caller that accepts any non-empty list
FindResultAnyLength(personas, topic_arg, user_region) ==
  IF Len(personas) >= 1 THEN Take(personas, 3)
  ELSE fallback_persona_selection(topic_arg, user_region)

\* "if personas and len(personas) >= 3" and its else branch
FindResult(personas, topic_arg, user_region) ==
  IF Len(personas) >= 3 THEN Take(personas, 3)
  ELSE fallback_persona_selection(topic_arg, user_region)

\* ------------------------------------------------------------------------
\* Inputs and environment
\* ------------------------------------------------------------------------

\* most words of a topic given to the deterministic functions
MaxTopicWords == 2

\* most words of a topic given to find_relevant_personas
MaxFindTopicWords == 1

\* the capability chooses its tool request freely this many times in one
\* run; later requests repeat the last one (an agent stuck on one call)
MaxFreeCalls == 1

\* words topics are built from: hits of the keyword tables in mixed case,
\* a word no table knows, and a word that contains the key "ai"
Words == {"Python", "Physics", "stress", "cooking", "Philosophy", "Spain",
          "music", "Business", "Psychology"}

RECURSIVE TopicsUpTo(_)
\* the empty topic and the topics of 1..n words separated by blanks
TopicsUpTo(n) ==
  IF n = 0 THEN {""}
  ELSE LET S == TopicsUpTo(n - 1)
       IN S \cup {IF s = "" THEN w ELSE s \o " " \o w : s \in S, w \in Words}

Topics == TopicsUpTo(MaxTopicWords)

FindTopics == TopicsUpTo(MaxFindTopicWords)

\* regions of both catalogs, of one catalog only ("Singapore"), of neither
Regions == {"Global", "India", "United States", "United Kingdom", "Germany",
            "France", "Japan", "China", "Singapore", "Vatican City"}

\* persona names given to the tools: listed once, listed under two
\* categories of a region, listed in several regions, a listed name in
\* another letter case, a part of a listed name, a name listed nowhere, and
\* the empty string
Personas == {"C.V. Raman", "Aryabhata", "Steve Jobs", "Albert Einstein",
             "c.v. raman", "Raman", "Zorblax", ""}

\* the (topic, region) pairs run_agentic_persona_search is started with:
\* a DEMO_MAP hit of the delegate, and two requests that reach its models
AgentInputs == {<<"Python", "Global">>, <<"cooking", "India">>}

\* str(e) of the exceptions the capability raises
CapabilityErrors == {"429 Resource exhausted", "503 Service unavailable"}

\* str(e) of a response without candidates or parts
MalformedError == "list index out of range"

\* str(e) of a tool called with a non-string argument
ToolTypeError == "'float' object has no attribute 'lower'"

\* str(e) of an exception raised inside run_simple_persona_search's handler
HandlerError == "'charmap' codec can't encode character"

\* the tool requests the capability may make: name, arguments, and what the
\* tool's collaborator does during the call ("type_error": an argument that
\* is no string, on which the tool raises)
ToolEvents(t, r) ==
  { [name |-> "search_expert_database", args |-> [topic |-> t, region |-> r],
     ext |-> "none"],
    [name |-> "search_expert_database", args |-> [topic |-> t, region |-> r],
     ext |-> "type_error"],
    [name |-> "get_persona_wikipedia_info",
     args |-> [persona_name |-> "Albert Einstein"], ext |-> "found"],
    [name |-> "validate_persona_expertise",
     args |-> [persona_name |-> "Albert Einstein", topic |-> t], ext |-> "raises"],
    [name |-> "check_region_match",
     args |-> [persona_name |-> "C.V. Raman", region |-> r], ext |-> "none"],
    [name |-> "rank_personas", args |-> [query |-> t], ext |-> "none"] }

NoFence == [kind |-> "absent"]
NotJson == [kind |-> "invalid"]

\* a line "N. name: desc"
BulletLine(name, desc) == [marker |-> TRUE, colon |-> TRUE, name |-> name, desc |-> desc]

\* a line "N. name - desc": enumerated, without a colon
DashLine(name, desc) == [marker |-> TRUE, colon |-> FALSE, name |-> name, desc |-> desc]

\* the text of a part that holds a function call, and of an empty answer
EmptyText == [fence |-> NoFence, whole |-> NotJson, lines |-> <<>>]

\* the final texts the capability may produce
FinalTexts ==
  { \* a fenced array of 3 objects
    [fence |-> [kind |-> "array",
                v |-> <<JsonDict("Alan Turing", "Father of computing"),
                        JsonDict("Grace Hopper", "Compiler pioneer"),
                        JsonDict("Bill Gates", "Software entrepreneur")>>],
     whole |-> NotJson, lines |-> <<>>],
    \* a fenced array of 5 entries: objects, one without description, a pair
    [fence |-> [kind |-> "array",
                v |-> <<JsonDict("Alan Turing", "Father of computing"),
                        JsonDict("Grace Hopper", "Compiler pioneer"),
                        JsonDictNameOnly("Bill Gates"),
                        JsonList(<<"Steve Jobs", "Designer">>),
                        JsonDict("Linus Torvalds", "Kernel author")>>],
     whole |-> NotJson, lines |-> <<>>],
    \* a fenced array that json.loads rejects, followed by a numbered list
    [fence |-> [kind |-> "broken"], whole |-> NotJson,
     lines |-> <<BulletLine("Alan Turing", "Father of computing"),
                 BulletLine("Grace Hopper", "Compiler pioneer"),
                 BulletLine("Bill Gates", "Software entrepreneur")>>],
    \* the whole text is a JSON array: one pair, a 1-element list, a string
    [fence |-> NoFence,
     whole |-> [kind |-> "value",
                v |-> JsonList(<<JsonList(<<"Alan Turing", "Father of computing">>),
                                 JsonList(<<"Grace Hopper">>),
                                 JsonScalar("Bill Gates")>>)],
     lines |-> <<>>],
    \* the whole text is a JSON object
    [fence |-> NoFence,
     whole |-> [kind |-> "value", v |-> JsonDict("Alan Turing", "Father of computing")],
     lines |-> <<>>],
    \* free text with a numbered list "N. name: description", 2 entries
    [fence |-> NoFence, whole |-> NotJson,
     lines |-> <<BulletLine("Alan Turing", "Father of computing"),
                 DashLine("Grace Hopper", "Compiler pioneer"),
                 BulletLine("Bill Gates", "Software entrepreneur")>>],
    \* free text whose list uses " - " and no colon
    [fence |-> NoFence, whole |-> NotJson,
     lines |-> <<DashLine("Alan Turing", "Father of computing"),
                 DashLine("Grace Hopper", "Compiler pioneer"),
                 DashLine("Bill Gates", "Software entrepreneur")>>],
    EmptyText }

\* a line of an answer to the simple prompt
PairLine(name, desc) == [sep |-> TRUE, name |-> name, desc |-> desc]

\* an introduction such as "Here are 3 experts: ..."
NoiseLine == [sep |-> TRUE, name |-> "Here are 3 experts", desc |-> "as requested"]

\* the answers the capability may give to run_simple_persona_search:
\* 0, 1, 3 and 4 parsable lines
SimpleTexts ==
  { <<NoiseLine>>,
    <<NoiseLine, PairLine("Alan Turing", "Father of computing")>>,
    <<PairLine("Alan Turing", "Father of computing"),
      PairLine("Grace Hopper", "Compiler pioneer"),
      PairLine("Bill Gates", "Software entrepreneur")>>,
    <<PairLine("Alan Turing", "Father of computing"),
      PairLine("Grace Hopper", "Compiler pioneer"),
      PairLine("Bill Gates", "Software entrepreneur"),
      PairLine("Steve Jobs", "Designer")>> }

\* ------------------------------------------------------------------------
\* State
\* ------------------------------------------------------------------------

VARIABLES
  topic,        \* the topic argument of the call under study
  region,       \* its region argument
  rank_op,      \* the deterministic function last applied ("none" before)
  rank_out,     \* what it returned
  persona,      \* the persona_name argument of a tool applied on its own
  rank_ext,     \* what the tool's collaborator did during that call
  pc,           \* run_agentic_persona_search: where the call stands
  response,     \* the capability's latest response
  agent_steps,  \* the local list agent_steps
  iteration,    \* the local counter iteration
  sends,        \* chat.send_message calls made so far
  exc,          \* str(e) of the exception caught at line 618 ("" for none)
  result,       \* the dict returned
  s_pc,         \* run_simple_persona_search: where the call stands
  s_topic,      \* its topic argument
  s_region,     \* its region argument
  s_idx,        \* index into models_to_try of the model tried next
  s_last_error, \* last_error ("" for None)
  s_calls,      \* generate_content calls made so far
  s_sleeps,     \* time.sleep(2) calls made so far
  s_ret,        \* the list returned
  f_pc,         \* find_relevant_personas: where the call stands
  f_result,     \* the list returned
  runs,         \* concurrent run_agentic_persona_search calls, each with its locals
  kb,           \* the module-level tables REGION_PERSONAS and TOPIC_CATEGORY_MAP
  session_state, \* app.py: st.session_state of one browser session
  db            \* the rows of learning_sessions and chat_messages, and the stored memories

rank_vars == <<rank_op, rank_out, persona, rank_ext>>
agent_vars == <<pc, response, agent_steps, iteration, sends, exc, result>>
simple_vars == <<s_pc, s_topic, s_region, s_idx, s_last_error, s_calls, s_sleeps, s_ret>>
find_vars == <<f_pc, f_result>>
pair_vars == <<runs, kb>>
app_vars == <<session_state, db>>
vars == <<topic, region, rank_vars, agent_vars, simple_vars, find_vars, pair_vars, app_vars>>

NoResponse == [kind |-> "none"]
NoResult == [status |-> "none"]

\* max_iterations of the agent loop
max_iterations == 10

RankIdle == rank_op = "none" /\ rank_out = <<>> /\ persona = "" /\ rank_ext = "none"

AgentIdle ==
  /\ pc = "idle" /\ response = NoResponse /\ agent_steps = <<>> /\ iteration = 0
  /\ sends = 0 /\ exc = "" /\ result = NoResult

SimpleIdle ==
  /\ s_pc = "idle" /\ s_topic = "" /\ s_region = "" /\ s_idx = 1
  /\ s_last_error = "" /\ s_calls = 0 /\ s_sleeps = 0 /\ s_ret = <<>>

FindIdle == f_pc = "idle" /\ f_result = <<>>

\* the tables as the module defines them
KnowledgeBase ==
  [REGION_PERSONAS |-> REGION_PERSONAS, TOPIC_CATEGORY_MAP |-> TOPIC_CATEGORY_MAP]

PairIdle == runs = <<>> /\ kb = KnowledgeBase

\* the AUTOINCREMENT key of a row not yet inserted; None in session state
None == 0

\* the defaults of section 7; the key session_id has no default and a missing
\* key is as falsy as None
SessionDefaults ==
  [app_stage |-> "login", user_topic |-> "", personas |-> <<>>,
   chat_history |-> <<>>, chosen_persona |-> "", tutor_initialized |-> FALSE,
   is_custom_guide |-> FALSE, session_id |-> None, current_session_id |-> None,
   show_dashboard |-> FALSE]

\* empty tables learning_sessions / chat_messages and an empty memory store
EmptyDb == [learning_sessions |-> <<>>, memories |-> <<>>]

AppIdle == session_state = SessionDefaults /\ db = EmptyDb

\* ------------------------------------------------------------------------
\* The deterministic functions, applied to every (topic, region)
\* ------------------------------------------------------------------------

InitRank ==
  /\ topic \in Topics
  /\ region \in Regions
  /\ AppIdle /\ RankIdle /\ AgentIdle /\ SimpleIdle /\ FindIdle /\ PairIdle

CallFallbackRanker ==
  /\ rank_op = "none"
  /\ pc = "idle" /\ f_pc = "idle"
  /\ rank_op' = "fallback_persona_selection"
  /\ rank_out' = fallback_persona_selection(topic, region)
  /\ persona' = "" /\ rank_ext' = "none"
  /\ UNCHANGED <<topic, region, app_vars, pair_vars, agent_vars, simple_vars, find_vars>>

CallSearchExpertDatabase ==
  /\ rank_op = "none"
  /\ pc = "idle" /\ f_pc = "idle"
  /\ rank_op' = "search_expert_database"
  /\ rank_out' = search_expert_database(topic, region)
  /\ persona' = "" /\ rank_ext' = "none"
  /\ UNCHANGED <<topic, region, app_vars, pair_vars, agent_vars, simple_vars, find_vars>>

\* check_region_match applied to a persona and the region
CallCheckRegionMatch ==
  /\ rank_op = "none"
  /\ pc = "idle" /\ f_pc = "idle"
  /\ rank_op' = "check_region_match"
  /\ \E p \in Personas :
       /\ persona' = p
       /\ rank_out' = check_region_match(p, region)
  /\ rank_ext' = "none"
  /\ UNCHANGED <<topic, region, app_vars, pair_vars, agent_vars, simple_vars, find_vars>>

\* validate_persona_expertise applied to a persona and the topic, the
\* capability answering the scoring prompt in one of its ways
CallValidateExpertise ==
  /\ rank_op = "none"
  /\ pc = "idle" /\ f_pc = "idle"
  /\ rank_op' = "validate_persona_expertise"
  /\ persona' = "Albert Einstein"
  /\ \E ext \in ValidatorOutcomes :
       /\ rank_ext' = ext
       /\ rank_out' = ValidateResult(ValidatorResponse(ext))
  /\ UNCHANGED <<topic, region, app_vars, pair_vars, agent_vars, simple_vars, find_vars>>

NextRank ==
  \/ CallFallbackRanker
  \/ CallSearchExpertDatabase
  \/ CallCheckRegionMatch
  \/ CallValidateExpertise

SpecRank == InitRank /\ [][NextRank]_vars

\* ------------------------------------------------------------------------
\* src/simple_agent.py: run_simple_persona_search, step by step
\* s_pc: "idle", "demo_check" (called), "try_model" (in the for loop),
\* "exhausted" (loop ended without a response), "retry" (before the retry
\* prompt), "handler" (in the except branch), "returned", "raised"
\* ------------------------------------------------------------------------

\* the call itself: arguments bound, locals initialised
SimpleCall(t, r) ==
  /\ s_pc' = "demo_check"
  /\ s_topic' = t
  /\ s_region' = r
  /\ s_idx' = 1
  /\ s_last_error' = ""
  /\ s_calls' = 0
  /\ s_sleeps' = 0
  /\ s_ret' = <<>>

\* lines 52-56: a DEMO_MAP key in the topic of a Global request
SimpleDemoHit ==
  /\ s_pc = "demo_check"
  /\ s_region = "Global"
  /\ DemoExperts(s_topic) # <<>>
  /\ s_ret' = DemoResult(s_topic)
  /\ s_pc' = "returned"
  /\ UNCHANGED <<topic, region, app_vars, pair_vars, rank_vars, agent_vars, find_vars,
                 s_topic, s_region, s_idx, s_last_error, s_calls, s_sleeps>>

SimpleDemoMiss ==
  /\ s_pc = "demo_check"
  /\ ~(s_region = "Global" /\ DemoExperts(s_topic) # <<>>)
  /\ s_pc' = "try_model"
  /\ UNCHANGED <<topic, region, app_vars, pair_vars, rank_vars, agent_vars, find_vars,
                 s_topic, s_region, s_idx, s_last_error, s_calls, s_sleeps, s_ret>>

\* lines 75-101 and 110-121: the model answers; the loop breaks, the answer
\* is parsed and returned when it holds 3 pairs
SimpleModelAnswers ==
  /\ s_pc = "try_model"
  /\ \E text \in SimpleTexts :
       LET personas == parse_persona_response(text)
       IN IF SimpleFirstReturns(personas)
          THEN s_ret' = Take(personas, 3) /\ s_pc' = "returned"
          ELSE s_ret' = s_ret /\ s_pc' = "retry"
  /\ s_calls' = s_calls + 1
  /\ UNCHANGED <<topic, region, app_vars, pair_vars, rank_vars, agent_vars, find_vars,
                 s_topic, s_region, s_idx, s_last_error, s_sleeps>>

\* lines 102-108: the model fails; pause on "429", go on with the next model
SimpleModelFails ==
  /\ s_pc = "try_model"
  /\ \E e \in CapabilityErrors :
       /\ s_last_error' = e
       /\ s_sleeps' = IF Contains(e, "429") THEN s_sleeps + 1 ELSE s_sleeps
  /\ s_calls' = s_calls + 1
  /\ s_idx' = s_idx + 1
  /\ s_pc' = IF s_idx = Len(models_to_try) THEN "exhausted" ELSE "try_model"
  /\ UNCHANGED <<topic, region, app_vars, pair_vars, rank_vars, agent_vars, find_vars,
                 s_topic, s_region, s_ret>>

\* lines 110-111: no response, raise last_error into the except branch
SimpleAllFailed ==
  /\ s_pc = "exhausted"
  /\ s_pc' = "handler"
  /\ UNCHANGED <<topic, region, app_vars, pair_vars, rank_vars, agent_vars, find_vars,
                 s_topic, s_region, s_idx, s_last_error, s_calls, s_sleeps, s_ret>>

\* lines 124-131: the retry prompt is answered
SimpleRetryAnswers ==
  /\ s_pc = "retry"
  /\ \E text \in SimpleTexts :
       s_ret' = SimpleRetryResult(parse_persona_response(text), s_topic)
  /\ s_calls' = s_calls + 1
  /\ s_pc' = "returned"
  /\ UNCHANGED <<topic, region, app_vars, pair_vars, rank_vars, agent_vars, find_vars,
                 s_topic, s_region, s_idx, s_last_error, s_sleeps>>

\* line 125 raises
SimpleRetryFails ==
  /\ s_pc = "retry"
  /\ \E e \in CapabilityErrors : s_last_error' = e
  /\ s_calls' = s_calls + 1
  /\ s_pc' = "handler"
  /\ UNCHANGED <<topic, region, app_vars, pair_vars, rank_vars, agent_vars, find_vars,
                 s_topic, s_region, s_idx, s_sleeps, s_ret>>

\* lines 133-137: the except branch returns the placeholders
SimpleHandlerReturns ==
  /\ s_pc = "handler"
  /\ s_ret' = fallback_selection(s_topic)
  /\ s_pc' = "returned"
  /\ UNCHANGED <<topic, region, app_vars, pair_vars, rank_vars, agent_vars, find_vars,
                 s_topic, s_region, s_idx, s_last_error, s_calls, s_sleeps>>

\* lines 134-137: a print of the except branch raises itself (a console that
\* cannot encode the message), and the exception leaves the function
SimpleHandlerRaises ==
  /\ s_pc = "handler"
  /\ s_last_error' = HandlerError
  /\ s_pc' = "raised"
  /\ UNCHANGED <<topic, region, app_vars, pair_vars, rank_vars, agent_vars, find_vars,
                 s_topic, s_region, s_idx, s_calls, s_sleeps, s_ret>>

NextSimple ==
  \/ SimpleDemoHit
  \/ SimpleDemoMiss
  \/ SimpleModelAnswers
  \/ SimpleModelFails
  \/ SimpleAllFailed
  \/ SimpleRetryAnswers
  \/ SimpleRetryFails
  \/ SimpleHandlerReturns
  \/ SimpleHandlerRaises

\* ------------------------------------------------------------------------
\* src/ai_agent.py: run_agentic_persona_search, step by step
\* pc: "idle", "start" (called), "prompt" (model and chat created), "loop"
\* (at the while test), "send" (tool result ready to send), "delegate" (in
\* run_simple_persona_search), "except" (in the except branch), "done"
\* ------------------------------------------------------------------------

FunctionCall(e) == [kind |-> "function_call", name |-> e.name, args |-> e.args, ext |-> e.ext]

TextResponse(text) == [kind |-> "text", text |-> text]

\* a response without candidates or parts
Malformed == [kind |-> "malformed"]

\* what the capability may answer after k tool calls were dispatched
Responses(k) ==
  (IF k < MaxFreeCalls THEN {FunctionCall(e) : e \in ToolEvents(topic, region)}
   ELSE IF response.kind = "function_call" THEN {response} ELSE {})
  \cup {TextResponse(text) : text \in FinalTexts}
  \cup {Malformed}

\* the tool calls that reach a handler without raising
DispatchableCalls ==
  UNION { {FunctionCall(e) : e \in {x \in ToolEvents(input[1], input[2]) : x.ext # "type_error"}}
          : input \in AgentInputs }

\* process_tool_call tabulated over the calls the capability may request
ToolResultTable ==
  {[call |-> call, out |-> process_tool_call(call.name, call.args, call.ext)] :
     call \in DispatchableCalls}

\* tool_result = process_tool_call(tool_name, tool_input)
ToolResult(call) == (CHOOSE entry \in ToolResultTable : entry.call = call).out

\* a log that keeps the whole tool result
LoggedOutputUntruncated(tool_result) == tool_result

\* line 537: tool_result[:500]
LoggedOutput(tool_result) == Take(tool_result, 500)

\* a loop that runs once more than max_iterations
LoopContinuesOffByOne(resp, n) == resp.kind = "function_call" /\ n <= max_iterations

\* the while test: parts[0].function_call and iteration < max_iterations
LoopContinues(resp, n) == resp.kind = "function_call" /\ n < max_iterations

\* parts[0].text: empty for a part that holds a function call
FinalResponseText(resp) == IF resp.kind = "text" THEN resp.text ELSE EmptyText

\* final_personas before the fallback
FinalPersonas(resp) == Normalize(ParseFinalAnswer(FinalResponseText(resp)))

SuccessResult(personas) ==
  [status |-> "success", topic |-> topic, region |-> region,
   personas |-> personas, reasoning |-> FinalResponseText(response),
   agent_steps |-> agent_steps, iterations |-> iteration]

\* an error result that reports the steps logged so far
ErrorResultWithSteps(e) ==
  [status |-> "error", topic |-> topic, region |-> region, error |-> e,
   agent_steps |-> agent_steps]

ErrorResult(e) ==
  [status |-> "error", topic |-> topic, region |-> region, error |-> e,
   agent_steps |-> <<>>]

\* an exception reaches the except branch of line 618
Raise(e) ==
  /\ pc' = "except"
  /\ exc' = e

\* lines 480-486
CreateModel ==
  /\ pc = "start"
  /\ pc' = "prompt"
  /\ UNCHANGED <<topic, region, app_vars, pair_vars, rank_vars, simple_vars, find_vars,
                 response, agent_steps, iteration, sends, exc, result>>

CreateModelRaises ==
  /\ pc = "start"
  /\ \E e \in CapabilityErrors : Raise(e)
  /\ UNCHANGED <<topic, region, app_vars, pair_vars, rank_vars, simple_vars, find_vars,
                 response, agent_steps, iteration, sends, result>>

\* lines 512-516
SendPrompt ==
  /\ pc = "prompt"
  /\ sends' = sends + 1
  /\ response' \in Responses(0)
  /\ agent_steps' = <<>>
  /\ iteration' = 0
  /\ pc' = "loop"
  /\ UNCHANGED <<topic, region, app_vars, pair_vars, rank_vars, simple_vars, find_vars, exc, result>>

SendPromptRaises ==
  /\ pc = "prompt"
  /\ sends' = sends + 1
  /\ \E e \in CapabilityErrors : Raise(e)
  /\ UNCHANGED <<topic, region, app_vars, pair_vars, rank_vars, simple_vars, find_vars,
                 response, agent_steps, iteration, result>>

\* line 519 or 550 on a response without candidates or parts
ReadResponseRaises ==
  /\ pc = "loop"
  /\ response.kind = "malformed"
  /\ Raise(MalformedError)
  /\ UNCHANGED <<topic, region, app_vars, pair_vars, rank_vars, simple_vars, find_vars,
                 response, agent_steps, iteration, sends, result>>

\* lines 519-538: one tool call dispatched and logged
ToolDispatch ==
  /\ pc = "loop"
  /\ LoopContinues(response, iteration)
  /\ response.ext # "type_error"
  /\ iteration' = iteration + 1
  /\ LET tool_result == ToolResult(response)
     IN agent_steps' = Append(agent_steps,
           [step |-> iteration + 1, tool |-> response.name, input |-> response.args,
            output |-> LoggedOutput(tool_result)])
  /\ pc' = "send"
  /\ UNCHANGED <<topic, region, app_vars, pair_vars, rank_vars, simple_vars, find_vars,
                 response, sends, exc, result>>

\* lines 519-531: the tool raises on its arguments
ToolDispatchRaises ==
  /\ pc = "loop"
  /\ LoopContinues(response, iteration)
  /\ response.ext = "type_error"
  /\ iteration' = iteration + 1
  /\ Raise(ToolTypeError)
  /\ UNCHANGED <<topic, region, app_vars, pair_vars, rank_vars, simple_vars, find_vars,
                 response, agent_steps, sends, result>>

\* lines 541-547
SendToolResult ==
  /\ pc = "send"
  /\ sends' = sends + 1
  /\ response' \in Responses(iteration)
  /\ pc' = "loop"
  /\ UNCHANGED <<topic, region, app_vars, pair_vars, rank_vars, simple_vars, find_vars,
                 agent_steps, iteration, exc, result>>

SendToolResultRaises ==
  /\ pc = "send"
  /\ sends' = sends + 1
  /\ \E e \in CapabilityErrors : Raise(e)
  /\ UNCHANGED <<topic, region, app_vars, pair_vars, rank_vars, simple_vars, find_vars,
                 response, agent_steps, iteration, result>>

\* lines 550-616 when the final answer yields pairs
ReturnParsed ==
  /\ pc = "loop"
  /\ response.kind # "malformed"
  /\ ~LoopContinues(response, iteration)
  /\ FinalPersonas(response) # <<>>
  /\ result' = SuccessResult(FinalPersonas(response))
  /\ pc' = "done"
  /\ UNCHANGED <<topic, region, app_vars, pair_vars, rank_vars, simple_vars, find_vars,
                 response, agent_steps, iteration, sends, exc>>

\* a delegation that leaves the region to its default
DelegateArgsDefaultRegion == <<topic, "Global">>

\* the arguments the delegate is called with
DelegateArgs == <<topic, region>>

\* lines 550-606 when it yields none: run_simple_persona_search is called
Delegate ==
  /\ pc = "loop"
  /\ response.kind # "malformed"
  /\ ~LoopContinues(response, iteration)
  /\ FinalPersonas(response) = <<>>
  /\ SimpleCall(DelegateArgs[1], DelegateArgs[2])
  /\ pc' = "delegate"
  /\ UNCHANGED <<topic, region, app_vars, pair_vars, rank_vars, find_vars,
                 response, agent_steps, iteration, sends, exc, result>>

\* lines 606-616: the delegate's list is returned
DelegateReturns ==
  /\ pc = "delegate"
  /\ s_pc = "returned"
  /\ result' = SuccessResult(s_ret)
  /\ pc' = "done"
  /\ UNCHANGED <<topic, region, app_vars, pair_vars, rank_vars, simple_vars, find_vars,
                 response, agent_steps, iteration, sends, exc>>

\* line 606 raises
DelegateRaises ==
  /\ pc = "delegate"
  /\ s_pc = "raised"
  /\ Raise(s_last_error)
  /\ UNCHANGED <<topic, region, app_vars, pair_vars, rank_vars, simple_vars, find_vars,
                 response, agent_steps, iteration, sends, result>>

\* lines 618-627
HandleError ==
  /\ pc = "except"
  /\ result' = ErrorResult(exc)
  /\ pc' = "done"
  /\ UNCHANGED <<topic, region, app_vars, pair_vars, rank_vars, simple_vars, find_vars,
                 response, agent_steps, iteration, sends, exc>>

Init ==
  /\ \E input \in AgentInputs : topic = input[1] /\ region = input[2]
  /\ pc = "start" /\ response = NoResponse /\ agent_steps = <<>> /\ iteration = 0
  /\ sends = 0 /\ exc = "" /\ result = NoResult
  /\ AppIdle /\ RankIdle /\ SimpleIdle /\ FindIdle /\ PairIdle

NextAgent ==
  \/ CreateModel
  \/ CreateModelRaises
  \/ SendPrompt
  \/ SendPromptRaises
  \/ ReadResponseRaises
  \/ ToolDispatch
  \/ ToolDispatchRaises
  \/ SendToolResult
  \/ SendToolResultRaises
  \/ ReturnParsed
  \/ Delegate
  \/ DelegateReturns
  \/ DelegateRaises
  \/ HandleError

Next == NextAgent \/ NextSimple

Spec == Init /\ [][Next]_vars

\* every call made returns or raises, so a started run keeps taking steps
FairSpec == Spec /\ WF_vars(Next)

\* ------------------------------------------------------------------------
\* src/app.py: find_relevant_personas, step by step
\* f_pc: "idle", "start" (called), "calling" (in run_simple_persona_search),
\* "done"
\* ------------------------------------------------------------------------

\* line 209: the call
FindCalls ==
  /\ f_pc = "start"
  /\ SimpleCall(topic, region)
  /\ f_pc' = "calling"
  /\ UNCHANGED <<topic, region, app_vars, pair_vars, rank_vars, agent_vars, f_result>>

\* lines 211-215
FindReturns ==
  /\ f_pc = "calling"
  /\ s_pc = "returned"
  /\ f_result' = FindResult(s_ret, topic, region)
  /\ f_pc' = "done"
  /\ UNCHANGED <<topic, region, app_vars, pair_vars, rank_vars, agent_vars, simple_vars>>

\* lines 217-219
FindCatches ==
  /\ f_pc = "calling"
  /\ s_pc = "raised"
  /\ f_result' = fallback_persona_selection(topic, region)
  /\ f_pc' = "done"
  /\ UNCHANGED <<topic, region, app_vars, pair_vars, rank_vars, agent_vars, simple_vars>>

InitFind ==
  /\ topic \in FindTopics
  /\ region \in Regions
  /\ f_pc = "start" /\ f_result = <<>>
  /\ AppIdle /\ RankIdle /\ AgentIdle /\ SimpleIdle /\ PairIdle

NextFind ==
  \/ FindCalls
  \/ FindReturns
  \/ FindCatches
  \/ NextSimple

SpecFind == InitFind /\ [][NextFind]_vars


\* ------------------------------------------------------------------------
\* src/ai_agent.py: two calls of run_agentic_persona_search in progress at
\* once. runs[id] holds the locals of call id (pc as above, without the
\* intermediate "except" and "delegate"); kb holds the module-level tables.
\* ------------------------------------------------------------------------

\* the calls in progress
RunIds == {1, 2}

\* the tool requests the capability may make to a call on (t, r)
ParEvents(t, r) ==
  {e \in ToolEvents(t, r) : e.name = "search_expert_database"}

\* the final texts the capability may produce: a fenced array of 3 objects
\* and the empty text
ParTexts ==
  {text \in FinalTexts :
     /\ text.whole = NotJson /\ text.lines = <<>>
     /\ text.fence.kind = "array" => Len(FinalPersonas(TextResponse(text))) = 3}

\* what the chat of one call may answer after k of its tool calls
ParResponses(run, k) ==
  (IF k < MaxFreeCalls THEN {FunctionCall(e) : e \in ParEvents(run.topic, run.region)}
   ELSE IF run.response.kind = "function_call" THEN {run.response} ELSE {})
  \cup {TextResponse(text) : text \in ParTexts}
  \cup {Malformed}

\* the lists run_simple_persona_search(t, r) may return
SimpleReturns(t, r) ==
  IF r = "Global" /\ DemoExperts(t) # <<>> THEN {DemoResult(t)}
  ELSE {Take(parse_persona_response(text), 3) :
          text \in {x \in SimpleTexts : SimpleFirstReturns(parse_persona_response(x))}}
       \cup {SimpleRetryResult(parse_persona_response(text), t) : text \in SimpleTexts}
       \cup {fallback_selection(t)}

\* the locals of a call on (t, r) when it begins; dispatches counts the
\* process_tool_call calls this call has made
NewRun(t, r) ==
  [pc |-> "start", topic |-> t, region |-> r, response |-> NoResponse,
   agent_steps |-> <<>>, iteration |-> 0, dispatches |-> 0, result |-> NoResult]

\* lines 608-616 for one call
ParSuccessResult(run, personas) ==
  [status |-> "success", topic |-> run.topic, region |-> run.region,
   personas |-> personas, reasoning |-> FinalResponseText(run.response),
   agent_steps |-> run.agent_steps, iterations |-> run.iteration]

\* lines 618-627 for one call
ParErrorResult(run, e) ==
  [status |-> "error", topic |-> run.topic, region |-> run.region, error |-> e,
   agent_steps |-> <<>>]

\* an iteration counter kept in one place for all calls
IterationAfterDispatchShared(rs, id) ==
  LET others == {rs[i].dispatches : i \in DOMAIN rs \ {id}}
  IN rs[id].dispatches + (CHOOSE n \in others : \A m \in others : m <= n) + 1

\* line 520: iteration += 1 on the call's own local
IterationAfterDispatch(rs, id) == rs[id].iteration + 1

\* lines 480-486
ParCreateModel(id) ==
  /\ runs[id].pc = "start"
  /\ runs' = [runs EXCEPT ![id].pc = "prompt"]
  /\ UNCHANGED <<topic, region, app_vars, kb, rank_vars, agent_vars, simple_vars, find_vars>>

\* lines 512-516
ParSendPrompt(id) ==
  /\ runs[id].pc = "prompt"
  /\ \E resp \in ParResponses(runs[id], 0) :
       runs' = [runs EXCEPT ![id].pc = "loop", ![id].response = resp,
                            ![id].agent_steps = <<>>, ![id].iteration = 0]
  /\ UNCHANGED <<topic, region, app_vars, kb, rank_vars, agent_vars, simple_vars, find_vars>>

\* lines 480, 486, 512, 541: the capability raises; lines 618-627 return
ParCapabilityRaises(id) ==
  /\ runs[id].pc \in {"start", "prompt", "send"}
  /\ \E e \in CapabilityErrors :
       runs' = [runs EXCEPT ![id].pc = "done",
                            ![id].result = ParErrorResult(runs[id], e)]
  /\ UNCHANGED <<topic, region, app_vars, kb, rank_vars, agent_vars, simple_vars, find_vars>>

\* line 519 or 550 on a response without candidates or parts
ParReadResponseRaises(id) ==
  /\ runs[id].pc = "loop"
  /\ runs[id].response.kind = "malformed"
  /\ runs' = [runs EXCEPT ![id].pc = "done",
                          ![id].result = ParErrorResult(runs[id], MalformedError)]
  /\ UNCHANGED <<topic, region, app_vars, kb, rank_vars, agent_vars, simple_vars, find_vars>>

\* lines 519-538: one tool call dispatched and logged; the tool reads kb
ParToolDispatch(id) ==
  /\ runs[id].pc = "loop"
  /\ LoopContinues(runs[id].response, runs[id].iteration)
  /\ runs[id].response.ext # "type_error"
  /\ LET n == IterationAfterDispatch(runs, id)
         tool_result == ToolResult(runs[id].response)
     IN runs' = [runs EXCEPT
                   ![id].pc = "send",
                   ![id].iteration = n,
                   ![id].dispatches = @ + 1,
                   ![id].agent_steps =
                      Append(@, [step |-> n, tool |-> runs[id].response.name,
                                 input |-> runs[id].response.args,
                                 output |-> LoggedOutput(tool_result)])]
  /\ UNCHANGED <<topic, region, app_vars, kb, rank_vars, agent_vars, simple_vars, find_vars>>

\* lines 519-531: the tool raises on its arguments
ParToolDispatchRaises(id) ==
  /\ runs[id].pc = "loop"
  /\ LoopContinues(runs[id].response, runs[id].iteration)
  /\ runs[id].response.ext = "type_error"
  /\ runs' = [runs EXCEPT
                ![id].pc = "done",
                ![id].iteration = IterationAfterDispatch(runs, id),
                ![id].dispatches = @ + 1,
                ![id].result = ParErrorResult(runs[id], ToolTypeError)]
  /\ UNCHANGED <<topic, region, app_vars, kb, rank_vars, agent_vars, simple_vars, find_vars>>

\* lines 541-547
ParSendToolResult(id) ==
  /\ runs[id].pc = "send"
  /\ \E resp \in ParResponses(runs[id], runs[id].iteration) :
       runs' = [runs EXCEPT ![id].pc = "loop", ![id].response = resp]
  /\ UNCHANGED <<topic, region, app_vars, kb, rank_vars, agent_vars, simple_vars, find_vars>>

\* lines 550-616 when the final answer yields pairs
ParReturnParsed(id) ==
  /\ runs[id].pc = "loop"
  /\ runs[id].response.kind # "malformed"
  /\ ~LoopContinues(runs[id].response, runs[id].iteration)
  /\ FinalPersonas(runs[id].response) # <<>>
  /\ runs' = [runs EXCEPT
                ![id].pc = "done",
                ![id].result = ParSuccessResult(runs[id], FinalPersonas(runs[id].response))]
  /\ UNCHANGED <<topic, region, app_vars, kb, rank_vars, agent_vars, simple_vars, find_vars>>

\* lines 550-616 when it yields none and run_simple_persona_search returns
ParDelegateReturns(id) ==
  /\ runs[id].pc = "loop"
  /\ runs[id].response.kind # "malformed"
  /\ ~LoopContinues(runs[id].response, runs[id].iteration)
  /\ FinalPersonas(runs[id].response) = <<>>
  /\ \E personas \in SimpleReturns(runs[id].topic, runs[id].region) :
       runs' = [runs EXCEPT ![id].pc = "done",
                            ![id].result = ParSuccessResult(runs[id], personas)]
  /\ UNCHANGED <<topic, region, app_vars, kb, rank_vars, agent_vars, simple_vars, find_vars>>

\* line 606 raises; lines 618-627 return
ParDelegateRaises(id) ==
  /\ runs[id].pc = "loop"
  /\ runs[id].response.kind # "malformed"
  /\ ~LoopContinues(runs[id].response, runs[id].iteration)
  /\ FinalPersonas(runs[id].response) = <<>>
  /\ ~(runs[id].region = "Global" /\ DemoExperts(runs[id].topic) # <<>>)
  /\ runs' = [runs EXCEPT ![id].pc = "done",
                          ![id].result = ParErrorResult(runs[id], HandlerError)]
  /\ UNCHANGED <<topic, region, app_vars, kb, rank_vars, agent_vars, simple_vars, find_vars>>

InitPar ==
  /\ topic = "" /\ region = ""
  /\ runs \in [RunIds -> {NewRun(input[1], input[2]) : input \in AgentInputs}]
  /\ kb = KnowledgeBase
  /\ AppIdle /\ RankIdle /\ AgentIdle /\ SimpleIdle /\ FindIdle

NextPar ==
  \E id \in RunIds :
    \/ ParCreateModel(id)
    \/ ParSendPrompt(id)
    \/ ParCapabilityRaises(id)
    \/ ParReadResponseRaises(id)
    \/ ParToolDispatch(id)
    \/ ParToolDispatchRaises(id)
    \/ ParSendToolResult(id)
    \/ ParReturnParsed(id)
    \/ ParDelegateReturns(id)
    \/ ParDelegateRaises(id)

SpecPar == InitPar /\ [][NextPar]_vars

\* ------------------------------------------------------------------------
\* src/app.py: the Streamlit script as a state machine over st.session_state
\* and the SQLite tables; one action per button or input handler
\* ------------------------------------------------------------------------

\* learning sessions the model lets the user create
MaxSessions == 1

\* user prompts one chat history may hold
MaxExchanges == 3

\* what the user types into the topic box
AppTopics == {"Python", "cooking"}

\* what the user types into the custom guide box
CustomGuides == {"Sachin Tendulkar"}

OpeningText == "opening"
PromptText == "question"
AnswerText == "answer"
ErrorText == "Let me try that again. Connection issue"

\* database.py: INSERT INTO learning_sessions; the row id is the position
create_learning_session(tables, topic_arg, persona_arg, custom) ==
  [tables EXCEPT !.learning_sessions =
     Append(@, [topic |-> topic_arg, persona |-> persona_arg,
                is_custom_guide |-> custom, messages |-> <<>>])]

\* database.py: INSERT INTO chat_messages for the session
add_chat_message(tables, id, role, content) ==
  IF id \in 1..Len(tables.learning_sessions)
  THEN [tables EXCEPT !.learning_sessions[id].messages =
          Append(@, [role |-> role, content |-> content])]
  ELSE tables

\* database.py: the messages of the session, oldest first
get_chat_history(tables, id) ==
  IF id \in 1..Len(tables.learning_sessions)
  THEN tables.learning_sessions[id].messages
  ELSE <<>>

\* user_memory.py: one stored snippet with its metadata
store_conversation_memory(tables, topic_arg, persona_arg, id) ==
  [tables EXCEPT !.memories =
     Append(@, [topic |-> topic_arg, persona |-> persona_arg, session_id |-> id])]

\* get_user_stats(...)["recent_sessions"][:5]: ids of the user's sessions
RecentSessions == 1..Min(Len(db.learning_sessions), 5)

\* the assignments shared by both resume buttons
Restored(id) ==
  [session_state EXCEPT
     !.user_topic = db.learning_sessions[id].topic,
     !.chosen_persona = db.learning_sessions[id].persona,
     !.is_custom_guide = FALSE,
     !.session_id = id,
     !.current_session_id = id,
     !.chat_history = get_chat_history(db, id),
     !.app_stage = "run_chat",
     !.show_dashboard = FALSE,
     !.tutor_initialized = FALSE]

OtherUnchanged ==
  UNCHANGED <<topic, region, rank_vars, agent_vars, simple_vars, find_vars, pair_vars>>

\* login form submitted with name and email
SubmitLogin ==
  /\ session_state.app_stage = "login"
  /\ session_state' = [session_state EXCEPT !.app_stage = "get_topic",
                                            !.show_dashboard = FALSE]
  /\ UNCHANGED db /\ OtherUnchanged

\* sidebar button Home
Home ==
  /\ session_state.app_stage # "login"
  /\ session_state' = [session_state EXCEPT !.app_stage = "get_topic",
                                            !.show_dashboard = FALSE]
  /\ UNCHANGED db /\ OtherUnchanged

\* sidebar button Dashboard
Dashboard ==
  /\ session_state.app_stage # "login"
  /\ session_state' = [session_state EXCEPT !.show_dashboard = TRUE]
  /\ UNCHANGED db /\ OtherUnchanged

\* sidebar button Logout: st.session_state.clear(), then the defaults again
Logout ==
  /\ session_state.app_stage # "login"
  /\ session_state' = SessionDefaults
  /\ UNCHANGED db /\ OtherUnchanged

\* sidebar Recent Chats button of a session
SidebarResume(id) ==
  /\ session_state.app_stage # "login"
  /\ id \in RecentSessions
  /\ session_state' = Restored(id)
  /\ UNCHANGED db /\ OtherUnchanged

\* dashboard button Continue Learning of a session
DashboardResume(id) ==
  /\ session_state.app_stage # "login"
  /\ session_state.show_dashboard
  /\ id \in RecentSessions
  /\ session_state' = Restored(id)
  /\ UNCHANGED db /\ OtherUnchanged

\* the stage blocks run only when the dashboard view did not stop the script
StageShown(stage) ==
  /\ session_state.app_stage = stage
  /\ ~session_state.show_dashboard

\* button Find My Guide with a topic typed; find_relevant_personas answers a
\* list or raises
FindMyGuide(topic_input, raised) ==
  /\ StageShown("get_topic")
  /\ session_state' =
       IF raised
       THEN [session_state EXCEPT !.user_topic = topic_input]
       ELSE [session_state EXCEPT
               !.user_topic = topic_input,
               !.personas = fallback_persona_selection(topic_input, "Global"),
               !.app_stage = "show_personas"]
  /\ UNCHANGED db /\ OtherUnchanged

\* button Learn of the i-th persona card
LearnFrom(i) ==
  /\ StageShown("show_personas")
  /\ i \in 1..Len(session_state.personas)
  /\ session_state' = [session_state EXCEPT
                         !.chosen_persona = session_state.personas[i][1],
                         !.is_custom_guide = FALSE,
                         !.app_stage = "run_chat",
                         !.tutor_initialized = FALSE]
  /\ UNCHANGED db /\ OtherUnchanged

\* button Start Learning with a custom guide typed
CustomGuide(custom_persona) ==
  /\ StageShown("show_personas")
  /\ session_state' = [session_state EXCEPT
                         !.chosen_persona = custom_persona,
                         !.is_custom_guide = TRUE,
                         !.app_stage = "run_chat",
                         !.tutor_initialized = FALSE]
  /\ UNCHANGED db /\ OtherUnchanged

\* button Explore different topic
ExploreDifferentTopic ==
  /\ StageShown("show_personas")
  /\ session_state' = [session_state EXCEPT !.app_stage = "get_topic"]
  /\ UNCHANGED db /\ OtherUnchanged

\* button New Topic of the chat header
NewTopic ==
  /\ StageShown("run_chat")
  /\ session_state' = [session_state EXCEPT !.app_stage = "get_topic"]
  /\ UNCHANGED db /\ OtherUnchanged

\* tutor initialisation, branch RESUME EXISTING SESSION
TutorResume ==
  /\ StageShown("run_chat")
  /\ ~session_state.tutor_initialized
  /\ session_state.session_id # None
  /\ session_state' = [session_state EXCEPT
                         !.current_session_id = session_state.session_id,
                         !.tutor_initialized = TRUE]
  /\ UNCHANGED db /\ OtherUnchanged

\* tutor initialisation, branch CREATE NEW SESSION
TutorCreate ==
  /\ StageShown("run_chat")
  /\ ~session_state.tutor_initialized
  /\ session_state.session_id = None
  /\ Len(db.learning_sessions) < MaxSessions
  /\ LET created == create_learning_session(db, session_state.user_topic,
                                            session_state.chosen_persona,
                                            session_state.is_custom_guide)
         id == Len(created.learning_sessions)
     IN /\ db' = add_chat_message(created, id, "assistant", OpeningText)
        /\ session_state' = [session_state EXCEPT
                               !.current_session_id = id,
                               !.chat_history =
                                  << [role |-> "assistant", content |-> OpeningText] >>,
                               !.tutor_initialized = TRUE]
  /\ OtherUnchanged

\* tutor initialisation raised; button Try another guide
TryAnotherGuide ==
  /\ StageShown("run_chat")
  /\ ~session_state.tutor_initialized
  /\ session_state' = [session_state EXCEPT !.app_stage = "show_personas"]
  /\ UNCHANGED db /\ OtherUnchanged

\* the chat input is rendered
ChatOpen ==
  /\ StageShown("run_chat")
  /\ session_state.tutor_initialized
  /\ Cardinality({i \in 1..Len(session_state.chat_history) :
                    session_state.chat_history[i].role = "user"}) < MaxExchanges

\* the condition "every 3 exchanges" of the chat handler
StoreDue(history) == Len(history) % 6 = 0

\* a prompt is sent and the tutor answers
ChatAnswered ==
  /\ ChatOpen
  /\ LET id == session_state.current_session_id
         history == session_state.chat_history
                      \o << [role |-> "user", content |-> PromptText],
                            [role |-> "assistant", content |-> AnswerText] >>
         logged == IF id # None
                   THEN add_chat_message(add_chat_message(db, id, "user", PromptText),
                                         id, "assistant", AnswerText)
                   ELSE db
     IN /\ session_state' = [session_state EXCEPT !.chat_history = history]
        /\ db' = IF id # None /\ StoreDue(history)
                 THEN store_conversation_memory(logged, session_state.user_topic,
                                                session_state.chosen_persona, id)
                 ELSE logged
  /\ OtherUnchanged

\* a prompt is sent and send_message raises
ChatFailed ==
  /\ ChatOpen
  /\ LET id == session_state.current_session_id
     IN /\ session_state' =
             [session_state EXCEPT !.chat_history =
                @ \o << [role |-> "user", content |-> PromptText],
                        [role |-> "assistant", content |-> ErrorText] >>]
        /\ db' = IF id # None THEN add_chat_message(db, id, "user", PromptText) ELSE db
  /\ OtherUnchanged

InitApp ==
  /\ topic = "" /\ region = ""
  /\ AppIdle /\ RankIdle /\ AgentIdle /\ SimpleIdle /\ FindIdle /\ PairIdle

NextApp ==
  \/ SubmitLogin
  \/ Home
  \/ Dashboard
  \/ Logout
  \/ \E id \in 1..MaxSessions : SidebarResume(id)
  \/ \E id \in 1..MaxSessions : DashboardResume(id)
  \/ \E topic_input \in AppTopics, raised \in BOOLEAN : FindMyGuide(topic_input, raised)
  \/ \E i \in 1..3 : LearnFrom(i)
  \/ \E custom_persona \in CustomGuides : CustomGuide(custom_persona)
  \/ ExploreDifferentTopic
  \/ NewTopic
  \/ TutorResume
  \/ TutorCreate
  \/ TryAnotherGuide
  \/ ChatAnswered
  \/ ChatFailed

SpecApp == InitApp /\ [][NextApp]_vars

\* ------------------------------------------------------------------------
\* Properties of the app (SpecApp)
\* ------------------------------------------------------------------------

\* successful user/assistant exchanges held by a chat history
Answers(history) ==
  Cardinality({i \in 1..Len(history) : history[i].content = AnswerText})

\* the chat runs on a session created by this browser session's tutor
\* initialisation: no resume button has set session_id
InNewSession ==
  /\ session_state.session_id = None
  /\ session_state.current_session_id # None
  /\ session_state.tutor_initialized

\* C27: in a newly created session, whose history starts with the tutor's
\* opening message, the 3rd, 6th, 9th, ... successful exchange stores the
\* conversation to semantic memory.
C27_EveryThirdExchangeIsStored ==
  [][ ( /\ InNewSession
        /\ Answers(session_state'.chat_history) = Answers(session_state.chat_history) + 1
        /\ Answers(session_state'.chat_history) % 3 = 0 )
      => Len(db'.memories) = Len(db.memories) + 1 ]_vars

\* the history of a newly created session has odd length and nothing is
\* stored to semantic memory while the chat runs on it
C27_NewSessionNeverStores ==
  /\ [](InNewSession => Len(session_state.chat_history) % 2 = 1)
  /\ [][InNewSession => db'.memories = db.memories]_vars

\* three successful exchanges in a new session and an empty memory store
C27_ThirdExchangeUnstored ==
  /\ InNewSession
  /\ Answers(session_state.chat_history) = 3
  /\ Len(session_state.chat_history) = 7
  /\ db.memories = <<>>

\* the conversation was stored: a resumed session whose reloaded history has
\* even length
C27_StoredAfterResume ==
  /\ db.memories # <<>>
  /\ session_state.session_id # None

\* C30: whenever the chat stage runs with the tutor initialised,
\* current_session_id names a learning session whose topic and persona are the
\* current user_topic and chosen_persona.
C30_ChatIsOnTheChosenSession ==
  (session_state.app_stage = "run_chat" /\ session_state.tutor_initialized) =>
    LET id == session_state.current_session_id
    IN /\ id \in 1..Len(db.learning_sessions)
       /\ db.learning_sessions[id].topic = session_state.user_topic
       /\ db.learning_sessions[id].persona = session_state.chosen_persona

\* the same, as long as no resume button was pressed since login
C30_HoldsUntilAResume ==
  ( /\ session_state.app_stage = "run_chat"
    /\ session_state.tutor_initialized
    /\ session_state.session_id = None ) =>
    LET id == session_state.current_session_id
    IN /\ id \in 1..Len(db.learning_sessions)
       /\ db.learning_sessions[id].topic = session_state.user_topic
       /\ db.learning_sessions[id].persona = session_state.chosen_persona

\* a chat on another topic writes into the session resumed earlier
C30_ChatReattached ==
  /\ session_state.app_stage = "run_chat"
  /\ session_state.tutor_initialized
  /\ session_state.current_session_id = 1
  /\ session_state.user_topic = "cooking"
  /\ db.learning_sessions[1].topic = "Python"
  /\ Len(db.learning_sessions[1].messages) > 1
  /\ db.learning_sessions[1].messages[Len(db.learning_sessions[1].messages)].content
       = AnswerText
  /\ session_state.chat_history[Len(session_state.chat_history)].content = AnswerText
\* ------------------------------------------------------------------------
\* Properties of the deterministic functions (SpecRank)
\* ------------------------------------------------------------------------

\* the names of a list of (name, description) pairs
PairNames(pairs) == {pairs[i][1] : i \in 1..Len(pairs)}

\* a list of exactly n (name, description) pairs
IsPairList(pairs, n) ==
  /\ Len(pairs) = n
  /\ \A i \in 1..Len(pairs) : Len(pairs[i]) = 2

\* C1: for every topic (the empty one included) and every region (unknown
\* ones included) fallback_persona_selection returns exactly 3 (name,
\* description) pairs whose 3 names are pairwise distinct.
C1_FallbackThreeDistinct ==
  rank_op = "fallback_persona_selection" =>
    /\ IsPairList(rank_out, 3)
    /\ Cardinality(PairNames(rank_out)) = 3

\* the empty topic in a region of no catalog, ranked
C1_Witness ==
  /\ rank_op = "fallback_persona_selection"
  /\ topic = ""
  /\ AppRegionList(region) = <<>>
  /\ Len(rank_out) = 3

\* C9: for a region other than "Global" (unknown regions included) whose
\* curated list under the classified category is empty or missing,
\* search_expert_database returns only match_type = "global_fallback"
\* candidates, and the empty list when "Global" has no list for the category.
C9_EmptyRegionFallsBackToGlobal ==
  ( /\ rank_op = "search_expert_database"
    /\ region # "Global"
    /\ CategoryList(RegionData(region), Classify(topic)) = <<>> ) =>
    /\ \A i \in 1..Len(rank_out) : rank_out[i].match_type = "global_fallback"
    /\ CategoryList(RegionData("Global"), Classify(topic)) = <<>> => rank_out = <<>>

\* "Physics" in a region of no catalog: the Global list, tagged as fallback
C9_Witness ==
  /\ rank_op = "search_expert_database"
  /\ topic = "Physics"
  /\ ~InCatalog(region)
  /\ Len(rank_out) = 3
  /\ \A i \in 1..Len(rank_out) : rank_out[i].match_type = "global_fallback"

\* C10: for region "Global" every candidate of search_expert_database has
\* match_type = "category_match" (never "exact_regional_match" nor
\* "global_fallback") and is tagged with a concrete catalog region other than
\* "Global" whose own list for the category holds it; the lists of the
\* catalog's "Global" key are never a source.
C10_GlobalPoolsConcreteRegions ==
  (rank_op = "search_expert_database" /\ region = "Global") =>
    \A i \in 1..Len(rank_out) :
      /\ rank_out[i].match_type = "category_match"
      /\ rank_out[i].region # "Global"
      /\ InCatalog(rank_out[i].region)
      /\ InList(rank_out[i].name,
                CategoryList(RegionData(rank_out[i].region), rank_out[i].category))

\* a Global search that pooled candidates of two different regions
C10_Witness ==
  /\ rank_op = "search_expert_database"
  /\ region = "Global"
  /\ \E i, j \in 1..Len(rank_out) : rank_out[i].region # rank_out[j].region


\* the curated list of a region for a category
Curated(reg, category) == CategoryList(RegionData(reg), category)

\* C11: for a region R other than "Global", every candidate has region R or
\* "Global", one result never mixes exact_regional_match and global_fallback
\* candidates, and when R's curated list for the classified category is
\* non-empty the result is that list in curated order (cut to 10), each
\* entry with priority 1, relevance high and match_type exact_regional_match.
C11_StrictTwoTier ==
  (rank_op = "search_expert_database" /\ region # "Global") =>
    LET curated == Curated(region, Classify(topic))
    IN /\ \A i \in 1..Len(rank_out) :
            /\ rank_out[i].region \in {region, "Global"}
            /\ rank_out[i].match_type \in {"exact_regional_match", "global_fallback"}
            /\ rank_out[i].match_type = rank_out[1].match_type
       /\ curated # <<>> =>
            /\ Len(rank_out) = Min(Len(curated), 10)
            /\ \A i \in 1..Len(rank_out) :
                 /\ rank_out[i].name = curated[i]
                 /\ rank_out[i].region = region
                 /\ rank_out[i].priority = 1
                 /\ rank_out[i].relevance = "high"
                 /\ rank_out[i].match_type = "exact_regional_match"

\* a regional request answered from the region's own list although "Global"
\* lists the category too
C11_Witness ==
  /\ rank_op = "search_expert_database"
  /\ region = "India"
  /\ topic = "Physics"
  /\ Curated("Global", Classify(topic)) # <<>>
  /\ Len(rank_out) = 4
  /\ rank_out[1].name = "Jagadish Chandra Bose"
  /\ rank_out[2].name = "C.V. Raman"

\* position of a region in the catalog
RegionIndex(reg) ==
  CHOOSE i \in 1..Len(REGION_PERSONAS) : REGION_PERSONAS[i].region = reg

\* position of a name in a list
NameIndex(name, xs) == CHOOSE k \in 1..Len(xs) : xs[k] = name

RECURSIVE CollectedBefore(_, _)
\* how many candidates a Global search collects from the regions before the
\* i-th of the catalog
CollectedBefore(i, category) ==
  IF i <= 1 THEN 0
  ELSE CollectedBefore(i - 1, category)
       + (IF REGION_PERSONAS[i - 1].region = "Global" THEN 0
          ELSE Len(CategoryList(REGION_PERSONAS[i - 1].categories, category)))

\* how many candidates a search collects before it truncates
CollectedCount(topic_arg, reg) ==
  LET category == Classify(topic_arg)
  IN IF reg = "Global" THEN CollectedBefore(Len(REGION_PERSONAS) + 1, category)
     ELSE IF Curated(reg, category) # <<>> THEN Len(Curated(reg, category))
     ELSE Len(Curated("Global", category))

\* C12: search_expert_database returns at most 10 candidates, and they are
\* the first 10 in collection order: catalog regions in insertion order,
\* each region's curated list in its order, later regions dropped first.
C12_FirstTenInCollectionOrder ==
  rank_op = "search_expert_database" =>
    LET category == Classify(topic)
    IN /\ Len(rank_out) <= 10
       /\ Len(rank_out) = Min(CollectedCount(topic, region), 10)
       /\ \A n \in 1..Len(rank_out) :
            LET c == rank_out[n]
                xs == Curated(c.region, category)
            IN /\ InList(c.name, xs)
               /\ n = NameIndex(c.name, xs)
                      + (IF region = "Global"
                         THEN CollectedBefore(RegionIndex(c.region), category)
                         ELSE 0)

\* a Global search that collected more than 10 and dropped a later region whole
C12_Witness ==
  /\ rank_op = "search_expert_database"
  /\ region = "Global"
  /\ CollectedCount(topic, region) > 10
  /\ Len(rank_out) = 10
  /\ \E i \in 1..Len(REGION_PERSONAS) :
       /\ REGION_PERSONAS[i].region # "Global"
       /\ CategoryList(REGION_PERSONAS[i].categories, Classify(topic)) # <<>>
       /\ \A n \in 1..Len(rank_out) : rank_out[n].region # REGION_PERSONAS[i].region

\* C13: check_region_match(p, "Global") reports is_from_region = true and
\* regional_bonus = 0 for every persona string p, names listed nowhere and
\* the empty string included.
C13_GlobalAcceptsEveryone ==
  (rank_op = "check_region_match" /\ region = "Global") =>
    /\ rank_out.is_from_region = TRUE
    /\ rank_out.regional_bonus = 0
    /\ rank_out.persona = persona

\* the empty string checked against "Global"
C13_Witness ==
  /\ rank_op = "check_region_match"
  /\ region = "Global"
  /\ persona = ""
  /\ rank_out.is_from_region

\* the categories of a region, in catalog order, that list a persona verbatim
ListingCategories(p, reg) ==
  {i \in 1..Len(RegionData(reg)) :
     \E k \in 1..Len(RegionData(reg)[i].personas) : RegionData(reg)[i].personas[k] = p}

\* C14: for a region R other than "Global", a persona that is verbatim an
\* element of a category list of R gets is_from_region = true, regional_bonus
\* = 20 and found_in_category = the first category of R that lists it; any
\* other persona (or a region outside the catalog) gets false, 0 and null.
\* So regional_bonus is 20 exactly when is_from_region holds and R is not
\* "Global".
C14_RegionalBonusForListedPersonas ==
  rank_op = "check_region_match" =>
    /\ region # "Global" =>
         LET listing == ListingCategories(persona, region)
         IN IF listing # {}
            THEN /\ rank_out.is_from_region = TRUE
                 /\ rank_out.regional_bonus = 20
                 /\ \E i \in listing :
                      /\ \A j \in listing : i <= j
                      /\ rank_out.found_in_category = RegionData(region)[i].category
            ELSE /\ rank_out.is_from_region = FALSE
                 /\ rank_out.regional_bonus = 0
                 /\ rank_out.found_in_category = "null"
    /\ rank_out.regional_bonus \in {0, 20}
    /\ rank_out.regional_bonus = 20 <=> (rank_out.is_from_region /\ region # "Global")

\* a persona listed under two categories of India, reported under the first
C14_Witness ==
  /\ rank_op = "check_region_match"
  /\ region = "India"
  /\ persona = "Aryabhata"
  /\ Cardinality(ListingCategories(persona, region)) = 2
  /\ rank_out.found_in_category = "Mathematics"
  /\ rank_out.regional_bonus = 20

\* the entries of TOPIC_CATEGORY_MAP whose key phrase is part of a topic in
\* lower case
KeywordHits(topic_arg) ==
  {i \in 1..Len(TOPIC_CATEGORY_MAP) :
     \E k \in 1..Len(topic_arg) :
        /\ k + Len(TOPIC_CATEGORY_MAP[i].key_phrase) - 1 <= Len(topic_arg)
        /\ Lower(SubSeq(topic_arg, k, k + Len(TOPIC_CATEGORY_MAP[i].key_phrase) - 1))
             = TOPIC_CATEGORY_MAP[i].key_phrase}

\* the category of the earliest matching entry, or the default
ExpectedCategory(topic_arg) ==
  LET hits == KeywordHits(topic_arg)
  IN IF hits = {} THEN "Science & Technology"
     ELSE TOPIC_CATEGORY_MAP[CHOOSE i \in hits : \A j \in hits : i <= j].cat

\* C15 as stated: the category used for a topic is that of the earliest
\* entry of TOPIC_CATEGORY_MAP whose keyword is part of the lowercased topic,
\* it is "Science & Technology" exactly when no keyword is part of it, and it
\* does not depend on the letter case of the topic.
C15_DefaultExactlyWhenNoKeyword ==
  (rank_op = "search_expert_database" /\ rank_out # <<>>) =>
    /\ \A n \in 1..Len(rank_out) : rank_out[n].category = ExpectedCategory(topic)
    /\ rank_out[1].category = "Science & Technology" <=> KeywordHits(topic) = {}
    /\ rank_out = search_expert_database(Lower(topic), region)

\* C15 amended: the category used for a topic is that of the earliest entry
\* of TOPIC_CATEGORY_MAP whose keyword is part of the lowercased topic, and
\* "Science & Technology" when no keyword is part of it or when that earliest
\* entry is one of the keywords mapped to "Science & Technology" (physics,
\* quantum, relativity); it does not depend on the letter case of the topic.
C15_FirstKeywordWins ==
  rank_op = "search_expert_database" =>
    /\ \A n \in 1..Len(rank_out) : rank_out[n].category = ExpectedCategory(topic)
    /\ KeywordHits(topic) = {} =>
         \A n \in 1..Len(rank_out) : rank_out[n].category = "Science & Technology"
    /\ (rank_out # <<>> /\ rank_out[1].category = "Science & Technology"
        /\ KeywordHits(topic) # {}) =>
         \E i \in KeywordHits(topic) :
            /\ \A j \in KeywordHits(topic) : i <= j
            /\ TOPIC_CATEGORY_MAP[i].key_phrase \in {"physics", "quantum", "relativity"}
    /\ rank_out = search_expert_database(Lower(topic), region)

\* a topic in mixed case that holds two keywords: the one entered earlier in
\* the table wins although it comes later in the topic
C15_Witness ==
  /\ rank_op = "search_expert_database"
  /\ topic = "Physics Python"
  /\ region = "United States"
  /\ Cardinality(KeywordHits(topic)) = 2
  /\ rank_out # <<>>
  /\ rank_out[1].category = "Computer Science"

\* the capability's answer in a validate_persona_expertise state
Answer == ValidatorResponse(rank_ext)

\* the answer's text is a JSON object
BareObject(resp) == resp.kind = "text" /\ resp.whole.t = "dict"

\* the answer's text is a JSON object between "```json" and "```"
WrappedObject(resp) ==
  /\ resp.kind = "text"
  /\ Len(resp.segs) = 3
  /\ resp.segs[1].kind = "fence_json"
  /\ resp.segs[2].kind = "json" /\ resp.segs[2].v.t = "dict"
  /\ resp.segs[3].kind = "fence"

\* the answer holds a JSON object somewhere
HoldsObject(resp) ==
  /\ resp.kind = "text"
  /\ \/ resp.whole.t = "dict"
     \/ \E i \in 1..Len(resp.segs) :
          resp.segs[i].kind = "json" /\ resp.segs[i].v.t = "dict"

\* the answer's text holds a fence delimiter
HasDelimiter(resp) ==
  resp.kind = "text" /\ \E i \in 1..Len(resp.segs) : resp.segs[i].kind \in {"fence", "fence_json"}

\* rank_out is {score: 60, reasoning: "Validation unavailable", is_expert: true}
IsValidatorFallback ==
  rank_out = [t |-> "dict",
              members |-> << [key |-> "score", value |-> [t |-> "int", n |-> 60]],
                             [key |-> "reasoning",
                              value |-> [t |-> "str", s |-> "Validation unavailable"]],
                             [key |-> "is_expert", value |-> [t |-> "bool", b |-> TRUE]] >>]

C17_ScoreIsIntegerInRange ==
  rank_op = "validate_persona_expertise" =>
    \E i \in 1..Len(rank_out.members) :
       /\ rank_out.members[i].key = "score"
       /\ rank_out.members[i].value.t = "int"
       /\ rank_out.members[i].value.n \in 0..100

\* C18 as stated: a candidate carries a priority field only if it is a
\* fallback-tier candidate (match_type = "global_fallback").
C18_PriorityOnlyOnFallbackTier ==
  rank_op = "search_expert_database" =>
    \A i \in 1..Len(rank_out) :
       "priority" \in DOMAIN rank_out[i] => rank_out[i].match_type = "global_fallback"

\* C18 amended: a candidate carries a priority field exactly when it answers
\* a request for a region other than "Global": priority 1 on
\* exact_regional_match candidates, priority 2 on global_fallback
\* candidates; category_match candidates carry none.
C18_PriorityOnRegionalRequests ==
  rank_op = "search_expert_database" =>
    \A i \in 1..Len(rank_out) :
       /\ "priority" \in DOMAIN rank_out[i] <=> region # "Global"
       /\ rank_out[i].match_type = "exact_regional_match" => rank_out[i].priority = 1
       /\ rank_out[i].match_type = "global_fallback" => rank_out[i].priority = 2
       /\ rank_out[i].match_type = "category_match" => "priority" \notin DOMAIN rank_out[i]

\* a region's own candidates carrying priority 1
C18_Witness ==
  /\ rank_op = "search_expert_database"
  /\ region = "Germany"
  /\ rank_out # <<>>
  /\ rank_out[1].match_type = "exact_regional_match"
  /\ "priority" \in DOMAIN rank_out[1]
  /\ rank_out[1].priority = 1

\* the expert list the tables give for a lowercased topic: that of the first
\* TOPIC_EXPERT_MAP key found in it, else that of the first keyword group
\* with a keyword found in it, else none
TableExperts(topic_lower) ==
  LET keys == {i \in 1..Len(TOPIC_EXPERT_MAP) :
                 Contains(topic_lower, TOPIC_EXPERT_MAP[i].key)}
      groups == {i \in 1..Len(keyword_matches) :
                   \E k \in 1..Len(keyword_matches[i].keywords) :
                      Contains(topic_lower, keyword_matches[i].keywords[k])}
  IN IF keys # {}
     THEN TOPIC_EXPERT_MAP[CHOOSE i \in keys : \A j \in keys : i <= j].experts
     ELSE IF groups # {}
     THEN keyword_matches[CHOOSE i \in groups : \A j \in groups : i <= j].experts
     ELSE <<>>

\* the first name of a list that is none of the names of a list of pairs
FirstUnused(names, pairs) ==
  LET free == {i \in 1..Len(names) :
                 \A k \in 1..Len(pairs) : pairs[k][1] # names[i]}
  IN IF free = {} THEN "" ELSE names[CHOOSE i \in free : \A j \in free : i <= j]

\* the order of the three kinds of entry
TagRank(description, user_region) ==
  IF description = "Topic-specific authority" THEN 1
  ELSE IF description = "Renowned " \o user_region \o " expert" THEN 2
  ELSE IF description = "Renowned thinker" THEN 3
  ELSE 0

\* C26: the output of fallback_persona_selection is determined by (topic,
\* region) and the table order: topic-specific authorities first, in table
\* order, from the first matching TOPIC_EXPERT_MAP key or, only when no key
\* matches, the first matching keyword group; then at most one "Renowned
\* {region} expert", the first persona of the region's list not yet used;
\* then famous personas in list order, skipping used names; the same inputs
\* give the same list.
C26_FallbackOrderIsDetermined ==
  rank_op = "fallback_persona_selection" =>
    LET experts == TableExperts(Lower(topic))
        authorities == {i \in 1..Len(rank_out) : TagRank(rank_out[i][2], region) = 1}
        regionals == {i \in 1..Len(rank_out) : TagRank(rank_out[i][2], region) = 2}
        famous == {i \in 1..Len(rank_out) : TagRank(rank_out[i][2], region) = 3}
    IN /\ rank_out = fallback_persona_selection(topic, region)
       /\ \A i \in 1..Len(rank_out) : TagRank(rank_out[i][2], region) \in 1..3
       /\ \A i, j \in 1..Len(rank_out) :
            i < j => TagRank(rank_out[i][2], region) <= TagRank(rank_out[j][2], region)
       /\ Cardinality(authorities) = Min(3, Len(experts))
       /\ \A i \in authorities : rank_out[i][1] = experts[i]
       /\ Cardinality(regionals) <= 1
       /\ regionals # {} <=>
            /\ Len(experts) < 3
            /\ FirstUnused(AppRegionList(region), SubSeq(rank_out, 1, Len(experts))) # ""
       /\ \A i \in regionals :
            rank_out[i][1] = FirstUnused(AppRegionList(region), SubSeq(rank_out, 1, i - 1))
       /\ \A i \in famous :
            rank_out[i][1] = FirstUnused(FAMOUS_PERSONAS, SubSeq(rank_out, 1, i - 1))

\* no table entry for the topic: the region's first persona, then the famous
\* list from its start without that persona
C26_Witness ==
  /\ rank_op = "fallback_persona_selection"
  /\ topic = "cooking"
  /\ region = "United States"
  /\ rank_out = << <<"Elon Musk", "Renowned United States expert">>,
                   <<"Jeff Bezos", "Renowned thinker">>,
                   <<"Steve Jobs", "Renowned thinker">> >>

\* C28: within one list returned by search_expert_database no persona name
\* occurs twice, for every topic and region, "Global" included.
C28_NoNameTwice ==
  rank_op = "search_expert_database" =>
    \A i, j \in 1..Len(rank_out) :
      rank_out[i].name = rank_out[j].name => i = j

\* no name occurs twice in the list of a search for a concrete region
C28_NoNameTwiceInARegion ==
  (rank_op = "search_expert_database" /\ region # "Global") =>
    \A i, j \in 1..Len(rank_out) :
      rank_out[i].name = rank_out[j].name => i = j

\* a Global search whose list holds one name under two regions
C28_PooledDuplicate ==
  /\ rank_op = "search_expert_database"
  /\ region = "Global"
  /\ \E i, j \in 1..Len(rank_out) :
       /\ i < j
       /\ rank_out[i].name = rank_out[j].name
       /\ rank_out[i].region # rank_out[j].region

\* C29: every candidate of search_expert_database tagged with a region other
\* than "Global" passes check_region_match for that region with
\* is_from_region true and regional_bonus 20; in particular every
\* exact_regional_match candidate passes the check for the searched region.
C29_RetrieverAndVerifierAgree ==
  rank_op = "search_expert_database" =>
    \A i \in 1..Len(rank_out) :
      /\ rank_out[i].region # "Global" =>
           LET verdict == check_region_match(rank_out[i].name, rank_out[i].region)
           IN /\ verdict.is_from_region
              /\ verdict.regional_bonus = 20
      /\ rank_out[i].match_type = "exact_regional_match" =>
           LET verdict == check_region_match(rank_out[i].name, region)
           IN /\ verdict.is_from_region
              /\ verdict.regional_bonus = 20

\* a regional search that returned candidates of a category listed after the
\* region's first one
C29_Witness ==
  /\ rank_op = "search_expert_database"
  /\ region # "Global"
  /\ Len(rank_out) > 0
  /\ rank_out[1].match_type = "exact_regional_match"
  /\ check_region_match(rank_out[1].name, region).found_in_category
       # RegionData(region)[1].category
\* ------------------------------------------------------------------------
\* Properties of run_agentic_persona_search (Spec, FairSpec)
\* ------------------------------------------------------------------------

\* the run returned status = "success"
Succeeded == pc = "done" /\ result.status = "success"

\* the final answer yielded no pair, so line 606 ran
Delegated == FinalPersonas(response) = <<>>

\* C2: every status = "success" result carries a personas sequence of
\* exactly 3 (name, description) pairs, whatever the final text was and
\* whatever the delegated simple search returned.
C2_SuccessHasThreePairs ==
  Succeeded => IsPairList(result.personas, 3)

\* C3: every status = "success" result has a non-empty personas list; when
\* the final answer yields zero pairs the list is the delegate's, and the
\* delegate's list is never empty.
C3_SuccessNonEmpty ==
  Succeeded =>
    /\ Len(result.personas) >= 1
    /\ \A i \in 1..Len(result.personas) : Len(result.personas[i]) = 2
    /\ Delegated => /\ s_pc = "returned"
                    /\ s_ret # <<>>
                    /\ result.personas = s_ret

\* a run whose empty final answer was replaced by what the retry prompt gave
C3_Witness ==
  /\ Succeeded
  /\ Delegated
  /\ FinalResponseText(response) = EmptyText
  /\ s_calls = 2
  /\ Len(result.personas) = 1

SomethingRaised == exc # "" \/ s_last_error # ""

\* the error result: the message, the arguments, no personas,
\* no steps
IsErrorResult(e) ==
  /\ result.status = "error"
  /\ result.error = e
  /\ result.topic = topic /\ result.region = region
  /\ "personas" \notin DOMAIN result
  /\ result.agent_steps = <<>>

C6_LoopTerminatesWithinCap ==
  /\ [](/\ iteration <= 10
        /\ Len(agent_steps) <= iteration
        /\ sends <= 11
        /\ sends <= iteration + 1)
  /\ <>(pc \in {"delegate", "except", "done"})

\* the cap reached while the capability still requests a tool call
C6_Witness ==
  /\ pc = "loop"
  /\ response.kind = "function_call"
  /\ iteration = 10
  /\ Len(agent_steps) = 10
  /\ sends = 11

\* ------------------------------------------------------------------------
\* Properties of find_relevant_personas (SpecFind)
\* ------------------------------------------------------------------------

\* every model of models_to_try was tried and failed
AllModelsFailed == s_idx > Len(models_to_try)

\* C7: when every model identifier fails in run_simple_persona_search, the
\* list find_relevant_personas delivers is fallback_persona_selection(topic,
\* region).
C7_AllModelsFailGivesFallbackRanker ==
  (f_pc = "done" /\ AllModelsFailed) =>
    f_result = fallback_persona_selection(topic, region)

\* C8: find_relevant_personas returns exactly 3 pairs for every outcome of
\* run_simple_persona_search: the first 3 of a list of 3 or more, and the
\* Fallback Ranker's output for a shorter list or a raised exception.
C8_FindReturnsThreePairs ==
  f_pc = "done" =>
    /\ IsPairList(f_result, 3)
    /\ (s_pc = "returned" /\ Len(s_ret) >= 3) => f_result = Take(s_ret, 3)
    /\ (s_pc = "returned" /\ Len(s_ret) < 3) =>
          f_result = fallback_persona_selection(topic, region)
    /\ s_pc = "raised" => f_result = fallback_persona_selection(topic, region)

\* a list of one pair from the retry prompt, replaced by the ranker's three
C8_Witness ==
  /\ f_pc = "done"
  /\ s_pc = "returned"
  /\ Len(s_ret) = 1
  /\ f_result = fallback_persona_selection(topic, region)

\* C19: a status = "success" result holds a 'response' field with the agent's
\* final answer text, so a caller may read result['response'] after checking
\* the status.
C19_SuccessHasResponseField ==
  Succeeded =>
    /\ "response" \in DOMAIN result
    /\ result.response = FinalResponseText(response)


\* the 10th tool result was sent, the capability answered with one more
\* tool request, and the run is at the while test or beyond it
CapReached ==
  /\ response.kind = "function_call"
  /\ iteration = max_iterations
  /\ sends = max_iterations + 1
  /\ pc = "loop" \/ s_pc # "idle"

StepRecord(resp, n) ==
  [step |-> n, tool |-> resp.name, input |-> resp.args,
   output |-> SubSeq(ToolResult(resp), 1, Min(500, Len(ToolResult(resp))))]

\* C22: in every status = "success" result agent_steps holds one record per
\* dispatched tool call in dispatch order, numbered 1..n with n the
\* iterations field and n <= 10, each output being the tool result cut to at
\* most 500 characters; during the run the log only grows, by one record per
\* dispatch appended at its end, and records already logged stay as they are.
C22_StepLogAppendOnly ==
  /\ [](Succeeded =>
          /\ result.agent_steps = agent_steps
          /\ result.iterations = iteration
          /\ Len(agent_steps) = iteration
          /\ iteration <= max_iterations
          /\ \A i \in 1..Len(agent_steps) :
               /\ agent_steps[i].step = i
               /\ Len(agent_steps[i].output) <= 500)
  /\ [][/\ Len(agent_steps') \in {Len(agent_steps), Len(agent_steps) + 1}
        /\ SubSeq(agent_steps', 1, Len(agent_steps)) = agent_steps
        /\ agent_steps' # agent_steps =>
             /\ iteration' = iteration + 1
             /\ agent_steps' = Append(agent_steps, StepRecord(response, iteration'))
        /\ iteration' # iteration =>
             /\ iteration' = iteration + 1
             /\ agent_steps' # agent_steps \/ pc' = "except"]_vars

\* a success result after two dispatches whose first logged output was cut
\* at 500 characters
C22_Witness ==
  /\ Succeeded
  /\ result.iterations = 2
  /\ Len(result.agent_steps) = 2
  /\ Len(result.agent_steps[1].output) = 500
  /\ Len(ToolResult([kind |-> "function_call", name |-> result.agent_steps[1].tool,
                     args |-> result.agent_steps[1].input, ext |-> "none"])) > 500

\* the capability's latest response requests a tool AGENT_TOOLS does not name
UnknownToolRequested ==
  /\ response.kind = "function_call"
  /\ response.name \notin DeclaredTools

\* C23: a request for a tool that is none of the four declared ones neither
\* aborts the loop nor is ignored: below the cap it is dispatched like any
\* other, the iteration counter goes up by one, a step is logged whose output
\* is the error value naming the tool, no exception is raised, and the run
\* goes on to send that value to the capability.
C23_UnknownToolIsReportedAndLoopContinues ==
  /\ [][(pc = "loop" /\ UnknownToolRequested /\ iteration < max_iterations) =>
          /\ pc' = "send"
          /\ exc' = ""
          /\ iteration' = iteration + 1
          /\ agent_steps' =
               Append(agent_steps,
                      [step |-> iteration + 1, tool |-> response.name,
                       input |-> response.args,
                       output |-> "{\"error\": \"Unknown tool: " \o response.name \o "\"}"])]_vars
  /\ [][(pc = "send" /\ UnknownToolRequested /\ pc' # "send") =>
          /\ sends' = sends + 1
          /\ pc' \in {"loop", "except"}
          /\ pc' = "except" => exc' \in CapabilityErrors]_vars

\* the error value of an undeclared tool was sent back, the capability asked
\* for the same tool again, and the loop is about to dispatch a second time
C23_Witness ==
  /\ pc = "loop"
  /\ UnknownToolRequested
  /\ iteration = 1
  /\ sends = 2
  /\ agent_steps[1].tool = "rank_personas"
  /\ agent_steps[1].output = "{\"error\": \"Unknown tool: rank_personas\"}"

\* the pairs each tier of the final-answer parsing extracts from a text when
\* it is applied on its own
FencedPairs(text) ==
  IF text.fence.kind = "array" THEN Normalize(JsonList(text.fence.v)) ELSE <<>>

WholeTextPairs(text) ==
  IF text.whole.kind = "value" THEN Normalize(text.whole.v) ELSE <<>>

ScannedPairs(text) == Normalize(ScanLines(text.lines))

\* the run read a final text and went on without an exception
FinalTextRead ==
  /\ response.kind = "text"
  /\ pc \in {"delegate", "done"}
  /\ exc = ""

\* C24: the tiers of final-answer parsing apply in a fixed order and the
\* first that succeeds is used: a fenced JSON array that parses gives the
\* items; without a fenced array the whole text is parsed as JSON; the line
\* scan runs only without a fenced array and when the whole text is no JSON;
\* and whenever some tier could extract at least one pair from the text, the
\* returned personas come from the text and not from the delegate.
C24_TiersInOrderAndTextWins ==
  FinalTextRead =>
    LET text == response.text
    IN /\ text.fence.kind = "array" =>
            FinalPersonas(response) = FencedPairs(text)
       /\ (text.fence.kind = "absent" /\ text.whole.kind = "value") =>
            FinalPersonas(response) = WholeTextPairs(text)
       /\ (text.fence.kind = "absent" /\ text.whole.kind = "invalid") =>
            FinalPersonas(response) = ScannedPairs(text)
       /\ (FencedPairs(text) # <<>> \/ WholeTextPairs(text) # <<>>
           \/ ScannedPairs(text) # <<>>) =>
            /\ s_pc = "idle"
            /\ pc = "done" =>
                 result.personas \in
                   {FencedPairs(text), WholeTextPairs(text), ScannedPairs(text)} \ {<<>>}

\* ------------------------------------------------------------------------
\* Properties of run_simple_persona_search (SpecFind)
\* ------------------------------------------------------------------------

\* the invariant part of C25: the models are tried from the first on, never
\* more than 3 first-prompt attempts, at most one retry prompt after the model
\* that answered, 4 capability calls at most, one pause per "429" failure at
\* most, and a non-empty list of pairs when the function returns
SimpleSearchBounded ==
  /\ s_idx \in 1..4
  /\ s_calls <= 4
  /\ s_calls <= s_idx + 1
  /\ s_idx = 4 => s_calls = 3
  /\ s_sleeps <= s_idx - 1
  /\ s_pc = "returned" =>
       /\ Len(s_ret) >= 1
       /\ \A i \in 1..Len(s_ret) : Len(s_ret[i]) = 2

\* the step part of C25: a failure moves on to the next model of the list and
\* pauses exactly when its message contains "429"; an answer ends the loop
SimpleSearchSteps ==
  /\ s_idx' # s_idx =>
       /\ s_pc = "try_model"
       /\ s_idx' = s_idx + 1
       /\ s_calls' = s_calls + 1
       /\ s_last_error' \in CapabilityErrors
       /\ s_sleeps' = IF Contains(s_last_error', "429") THEN s_sleeps + 1 ELSE s_sleeps
  /\ s_sleeps' # s_sleeps => s_idx' = s_idx + 1
  /\ (s_pc = "try_model" /\ s_idx' = s_idx /\ s_pc' # s_pc) =>
       /\ s_calls' = s_calls + 1
       /\ s_pc' \in {"returned", "retry"}
  /\ (s_pc = "retry" /\ s_pc' # s_pc) =>
       /\ s_calls' = s_calls + 1
       /\ s_pc' \in {"returned", "handler"}

OwnSteps(run) ==
  \A i \in 1..Len(run.agent_steps) :
    /\ run.agent_steps[i].step = i
    /\ \E e \in ParEvents(run.topic, run.region) :
         /\ run.agent_steps[i].tool = e.name
         /\ run.agent_steps[i].input = e.args

\* C20: two calls of run_agentic_persona_search whose steps interleave share
\* no mutable state: each call's iteration counter equals the number of tool
\* dispatches that call made, the steps it logged are numbered 1..n and are
\* its own, a success result reports the call's own steps and count, and
\* REGION_PERSONAS and TOPIC_CATEGORY_MAP stay as the module defines them
C20_RunsShareNoState ==
  /\ kb = KnowledgeBase
  /\ \A id \in DOMAIN runs :
       LET run == runs[id]
       IN /\ run.iteration = run.dispatches
          /\ Len(run.agent_steps) \in {run.dispatches, run.dispatches - 1}
          /\ OwnSteps(run)
          /\ run.result.status = "success" =>
               /\ run.result.iterations = run.dispatches
               /\ Len(run.result.agent_steps) = run.dispatches
               /\ run.result.agent_steps = run.agent_steps
               /\ run.result.topic = run.topic

\* both calls are between a dispatch and the next send, one after its first
\* tool call and the other after its second, on different topics
C20_Witness ==
  /\ DOMAIN runs = RunIds
  /\ runs[1].pc = "send" /\ runs[1].iteration = 1
  /\ runs[2].pc = "send" /\ runs[2].iteration = 2
  /\ runs[1].topic # runs[2].topic
  /\ runs[2].agent_steps[2].step = 2

====
